---- MODULE Spec2Model ----
(***************************************************************************)
(* Model of the enokiweave node: the ledger engine (TransactionManager in  *)
(* src/src/transaction_manager.rs), the transaction id and the amount      *)
(* types (src/src/transaction.rs, src/src/confidential.rs), the RPC        *)
(* admission queue (src/src/rpc.rs) and the request handler of the node    *)
(* binary (src/src/main.rs).                                               *)
(*                                                                         *)
(* Byte strings are modelled by their structure:                           *)
(*   - a 32-byte SHA-256 digest is the tuple of the fields that were       *)
(*     hashed (SHA-256 taken as injective on the concatenation), <<>> is   *)
(*     the all-zero hash and <<0>> a digest that is the id of no           *)
(*     transaction;                                                        *)
(*   - an LMDB key is <<"raw", h>> (the 32 raw bytes of the hash h) or     *)
(*     <<"txt", a, h>> (the UTF-8 text hex(a), followed by ":h" when       *)
(*     h >= 0);                                                            *)
(*   - a bincode value is the sequence of the serialized fields.           *)
(***************************************************************************)
EXTENDS Integers, Sequences, FiniteSets, TLC

\* ------------------------------------------------------------------ bounds
MaxAmount == 2
MaxTime == 1
MaxWalk == 3
MaxRequests == 3
MaxChain == 2
MaxPoint == 2
MaxProof == 2
MaxSecret == 3
MaxBlinding == 3
MaxConnections == 2
MaxPeerList == 1
MaxBootstrap == 2

\* ------------------------------------------------------- program constants
ZERO_ADDRESS == 0
ALICE_ADDRESS == 1
BOB_ADDRESS == 2
ChannelCapacity == 1000
UncompressedPointLen == 65
IdentityPointLen == 1
CompressedRistrettoLen == 32

Addr == {ALICE_ADDRESS, BOB_ADDRESS}

\* A key pair is named by the address its public key binds to (the
\* transaction builder derives a public key from the 32 address bytes).
Keys == Addr

KeyOf(a) == a

ZeroHash == << >>
RandomHash == << 0 >>

\* ------------------------------------------------------------------ amounts
Public(n) == << "Public", n >>
Confidential(c) == << "Confidential", c >>

IsPublic(amount) == amount[1] = "Public"

\* Ciphertext 1 carries a range proof that verifies, ciphertext 2 a range
\* proof with one byte flipped.
Ciphers == {1, 2}

RangeProofVerifies(c) == c = 1

Amounts == { Public(n) : n \in 0..MaxAmount } \cup { Confidential(c) : c \in Ciphers }

\* ------------------------------------------------------------ transactions
Tx(from, to, amount, timestamp, prev) ==
    [ from |-> from, to |-> to, amount |-> amount, timestamp |-> timestamp,
      previous_transaction_id |-> prev ]

\* The ciphertext named c: its two curve points (0 is the identity) and the
\* index of its range proof.
C1Of(c) == c % (MaxPoint + 1)

C2Of(c) == ((c \div (MaxPoint + 1)) + 1) % (MaxPoint + 1)

ProofOf(c) == c \div ((MaxPoint + 1) * (MaxPoint + 1))

\* Every ciphertext over the points and the range proofs of the bounds.
HashCiphers == 0..((MaxPoint + 1) * (MaxPoint + 1) * (MaxProof + 1) - 1)

\* to_encoded_point(true): the identity is the single byte 0, any other
\* point a tag byte (2 or 3, the parity of y) followed by x.
CompressedPoint(pt) == IF pt = 0 THEN << 0 >> ELSE << 2 + (pt % 2), pt >>

\* RangeProof::to_bytes: a byte string whose length grows with the proof.
RangeProofBytes(i) == [ j \in 1..(1 + (i \div 2)) |-> IF j = 1 THEN i % 2 ELSE 0 ]

\* The bytes of the amount fed to the hasher; a fixed-width integer is one
\* element.
AmountBytes(amount) ==
    IF IsPublic(amount) THEN << amount[2] >>
    ELSE CompressedPoint(C1Of(amount[2])) \o CompressedPoint(C2Of(amount[2]))
             \o RangeProofBytes(ProofOf(amount[2]))

\* The hasher's input without the timestamp.
HashInputWithoutTimestamp(tx) ==
    << tx.from, tx.to >> \o AmountBytes(tx.amount) \o << tx.previous_transaction_id >>

\* The hasher's input: the updates of calculate_id, one after the other with
\* nothing between them.
HashInput(tx) ==
    << tx.from, tx.to >> \o AmountBytes(tx.amount)
        \o << tx.timestamp, tx.previous_transaction_id >>

\* SHA-256, taken as injective: a digest is named by the bytes hashed.
Sha256(bytes) == bytes

CalculateId(tx) == Sha256(HashInput(tx))

HexEncode(h) == << "hex", h >>

\* ECDSA: a signature is the pair (signing key, signed message).
Sign(k, msg) == << k, msg >>

Verify(pk, msg, sig) == sig[1] = pk /\ sig[2] = msg

\* Signature::try_from([1u8; 64]): made by no key.
GenesisSignature == << ZERO_ADDRESS, ZeroHash >>

\* --------------------------------------------------------------- encodings
\* The Serialize impl of EncryptedExactAmount writes c1 and c2 as base64
\* texts and the range proof as the byte string of RangeProof's own
\* Serialize; a Public amount is written as its tag and number.
SerializeAmount(amount) ==
    IF IsPublic(amount) THEN amount
    ELSE << "Confidential", amount[2], "proofBytes" >>

\* The Deserialize impl of EncryptedExactAmount reads c1, c2 and the range
\* proof as three base64 texts: the byte string of a range proof is no text.
DeserializeAmount(bytes) ==
    IF bytes[1] = "Public" THEN [ ok |-> TRUE, amount |-> bytes ]
    ELSE IF bytes[3] = "proofBase64"
    THEN [ ok |-> TRUE, amount |-> Confidential(bytes[2]) ]
    ELSE [ ok |-> FALSE, amount |-> Public(0) ]

\* bincode of a Transaction: its fields in order.
SerializeFields(tx) == [ tx EXCEPT !.amount = SerializeAmount(tx.amount) ]

SerializeRecord(rec) == << SerializeFields(rec.transaction), rec.status, rec.signature >>

SerializeTransaction(tx) == << SerializeFields(tx) >>

\* bincode reads the fields in order and fails when a field cannot be read
\* or when the bytes run out.
DeserializeRecord(bytes) ==
    IF Len(bytes) >= 3 /\ DeserializeAmount(bytes[1].amount).ok
    THEN [ ok |-> TRUE,
           rec |-> [ transaction |->
                        [ bytes[1] EXCEPT !.amount = DeserializeAmount(bytes[1].amount).amount ],
                     status |-> bytes[2], signature |-> bytes[3] ] ]
    ELSE [ ok |-> FALSE ]

\* The bytes from which the decoder reads the record rec: as SerializeRecord,
\* with the range proof of a Confidential amount as base64 text.
ReadableRecord(rec) ==
    << [ rec.transaction EXCEPT !.amount =
            IF IsPublic(rec.transaction.amount) THEN rec.transaction.amount
            ELSE << "Confidential", rec.transaction.amount[2], "proofBase64" >> ],
       rec.status, rec.signature >>

RawKey(h) == << "raw", h >>

TextKey(a) == << "txt", a, -1 >>

ChainKey(a, h) == << "txt", a, h >>

FromHex(s) == s[2]

Put(db, key, value) ==
    [ k \in DOMAIN db \cup {key} |-> IF k = key THEN value ELSE db[k] ]

EmptyStore == [ k \in {} |-> << >> ]

\* ----------------------------------------------------- confidential amounts
\* CompressedRistretto::from_slice accepts exactly 32 bytes; it is handed the
\* uncompressed SEC1 encoding of the difference point.
FromSlice(len) == len = CompressedRistrettoLen

EncodedLen(isIdentity) == IF isIdentity THEN IdentityPointLen ELSE UncompressedPointLen

VerifyGreaterThan(current, previous) ==
    LET diffIsIdentity == current = previous IN
    IF ~FromSlice(EncodedLen(diffIsIdentity))
    THEN [ ok |-> FALSE, val |-> FALSE, cause |-> "SliceLength" ]
    ELSE IF ~(RangeProofVerifies(current) /\ RangeProofVerifies(previous))
    THEN [ ok |-> FALSE, val |-> FALSE, cause |-> "RangeProof" ]
    ELSE [ ok |-> TRUE, val |-> ~diffIsIdentity, cause |-> "" ]

VerifyGreaterThanU64(current, value) ==
    LET diffIsIdentity == FALSE IN
    IF ~FromSlice(EncodedLen(diffIsIdentity))
    THEN [ ok |-> FALSE, val |-> FALSE, cause |-> "SliceLength" ]
    ELSE IF ~RangeProofVerifies(current)
    THEN [ ok |-> FALSE, val |-> FALSE, cause |-> "RangeProof" ]
    ELSE [ ok |-> TRUE, val |-> ~diffIsIdentity, cause |-> "" ]

\* ------------------------------------------------------------ ledger engine
\* The while loop of verify_transaction_chain. The loop starts at the id of
\* the transaction to verify and, on a Confidential record, continues at
\* that same id. A walk that has not ended after MaxWalk reads never ends.
\* The error of a read that finds nothing names the id that was looked up
\* ("Transaction not found: {id}").
RECURSIVE Walk(_, _, _, _, _)
Walk(db, tx, current_transaction_id, commitments_chain, fuel) ==
    IF fuel = 0
    THEN [ ok |-> FALSE, cause |-> "Diverges", chain |-> commitments_chain ]
    ELSE IF RawKey(current_transaction_id) \notin DOMAIN db
    THEN [ ok |-> FALSE, cause |-> "TransactionNotFound", chain |-> commitments_chain,
           missing |-> current_transaction_id ]
    ELSE LET d == DeserializeRecord(db[RawKey(current_transaction_id)]) IN
         IF ~d.ok
         THEN [ ok |-> FALSE, cause |-> "Deserialize", chain |-> commitments_chain ]
         ELSE IF IsPublic(d.rec.transaction.amount)
         THEN [ ok |-> TRUE, cause |-> "",
                chain |-> Append(commitments_chain, d.rec.transaction.amount) ]
         ELSE Walk(db, tx, CalculateId(tx),
                   Append(commitments_chain, d.rec.transaction.amount), fuel - 1)

\* The loop over commitments_chain.windows(2), from window i on.
RECURSIVE CheckWindows(_, _)
CheckWindows(chain, i) ==
    IF i + 1 > Len(chain)
    THEN [ ok |-> TRUE, val |-> TRUE, cause |-> "" ]
    ELSE LET r == IF IsPublic(chain[i])
                  THEN [ ok |-> TRUE, val |-> TRUE, cause |-> "" ]
                  ELSE IF IsPublic(chain[i + 1])
                  THEN VerifyGreaterThanU64(chain[i][2], chain[i + 1][2])
                  ELSE VerifyGreaterThan(chain[i][2], chain[i + 1][2]) IN
         IF ~r.ok THEN r
         ELSE IF ~r.val THEN r
         ELSE CheckWindows(chain, i + 1)

VerifyTransactionChain(db, transaction_to_verify) ==
    LET w == Walk(db, transaction_to_verify, CalculateId(transaction_to_verify),
                  << >>, MaxWalk) IN
    IF ~w.ok /\ w.cause = "TransactionNotFound"
    THEN [ ok |-> FALSE, val |-> FALSE, cause |-> w.cause, missing |-> w.missing ]
    ELSE IF ~w.ok
    THEN [ ok |-> FALSE, val |-> FALSE, cause |-> w.cause ]
    ELSE CheckWindows(w.chain, 1)

\* add_transaction without the check of the result of the chain walk.
AddTransactionChainUnchecked(db, from, to, amount, public_key, timestamp, signature, previous_transaction_id) ==
    LET transaction == Tx(from, to, amount, timestamp, previous_transaction_id)
        message == CalculateId(transaction)
    IN  IF ~Verify(public_key, message, signature)
        THEN [ ok |-> FALSE, kind |-> "InvalidSignature", cause |-> "Verify",
               value |-> << >>, db |-> db ]
        ELSE [ ok |-> TRUE, kind |-> "Ok", cause |-> "",
               value |-> HexEncode(message),
               db |-> Put(db, RawKey(message), SerializeTransaction(transaction)) ]

\* add_transaction without the signature check.
AddTransactionSignatureUnchecked(db, from, to, amount, public_key, timestamp, signature, previous_transaction_id) ==
    LET transaction == Tx(from, to, amount, timestamp, previous_transaction_id)
        message == CalculateId(transaction)
        chain == VerifyTransactionChain(db, transaction)
    IN  IF ~chain.ok
        THEN [ ok |-> FALSE, kind |-> "InsufficientBalance", cause |-> chain.cause,
               value |-> << >>, db |-> db ]
        ELSE [ ok |-> TRUE, kind |-> "Ok", cause |-> "",
               value |-> HexEncode(message),
               db |-> Put(db, RawKey(message), SerializeTransaction(transaction)) ]

\* add_transaction with the put made before the checks.
AddTransactionPersistFirst(db, from, to, amount, public_key, timestamp, signature, previous_transaction_id) ==
    LET transaction == Tx(from, to, amount, timestamp, previous_transaction_id)
        message == CalculateId(transaction)
        chain == VerifyTransactionChain(db, transaction)
        written == Put(db, RawKey(message), SerializeTransaction(transaction))
    IN  IF ~Verify(public_key, message, signature)
        THEN [ ok |-> FALSE, kind |-> "InvalidSignature", cause |-> "Verify",
               value |-> << >>, db |-> written ]
        ELSE IF ~chain.ok /\ chain.cause = "Diverges"
        THEN [ ok |-> FALSE, kind |-> "Diverges", cause |-> "Diverges",
               value |-> << >>, db |-> written ]
        ELSE IF ~chain.ok
        THEN [ ok |-> FALSE, kind |-> "InsufficientBalance", cause |-> chain.cause,
               value |-> << >>, db |-> written ]
        ELSE [ ok |-> TRUE, kind |-> "Ok", cause |-> "",
               value |-> HexEncode(message), db |-> written ]

\* The outcome of add_transaction on the store db: the result returned and
\* the store left behind.
AddTransaction(db, from, to, amount, public_key, timestamp, signature, previous_transaction_id) ==
    LET transaction == Tx(from, to, amount, timestamp, previous_transaction_id)
        message == CalculateId(transaction)
        chain == VerifyTransactionChain(db, transaction)
    IN  IF ~Verify(public_key, message, signature)
        THEN [ ok |-> FALSE, kind |-> "InvalidSignature", cause |-> "Verify",
               value |-> << >>, db |-> db ]
        ELSE IF ~chain.ok /\ chain.cause = "Diverges"
        THEN [ ok |-> FALSE, kind |-> "Diverges", cause |-> "Diverges",
               value |-> << >>, db |-> db ]
        ELSE IF ~chain.ok
        THEN [ ok |-> FALSE, kind |-> "InsufficientBalance", cause |-> chain.cause,
               value |-> << >>, db |-> db ]
        ELSE [ ok |-> TRUE, kind |-> "Ok", cause |-> "",
               value |-> HexEncode(message),
               db |-> Put(db, RawKey(message), SerializeTransaction(transaction)) ]

GenesisTransaction(address, amount) ==
    Tx(ZERO_ADDRESS, FromHex(address), Public(amount), 0, ZeroHash)

GenesisRecord(address, amount) ==
    [ transaction |-> GenesisTransaction(address, amount),
      status |-> "Confirmed",
      signature |-> GenesisSignature ]

\* A load that adds the manifest amount to the amount already stored under
\* the address.
RECURSIVE PutAllAdding(_, _, _)
PutAllAdding(db, balances, todo) ==
    IF todo = {} THEN db
    ELSE LET address == CHOOSE s \in todo : TRUE
             stored == IF address \in DOMAIN db THEN db[address][1].amount[2] ELSE 0
         IN  PutAllAdding(Put(db, address,
                               SerializeRecord(GenesisRecord(address, balances[address] + stored))),
                          balances, todo \ {address})

\* One write transaction putting every manifest entry under its address text.
RECURSIVE PutAll(_, _, _)
PutAll(db, balances, todo) ==
    IF todo = {} THEN db
    ELSE LET address == CHOOSE s \in todo : TRUE IN
         PutAll(Put(db, address, SerializeRecord(GenesisRecord(address, balances[address]))),
                balances, todo \ {address})

LoadGenesisTransactions(db, balances) == PutAll(db, balances, DOMAIN balances)

\* get_address_balance_and_selfchain_height: the records of the self-chain of
\* address, stored under hex(address):0, hex(address):1, ... in height order.
RECURSIVE SelfChainHeight(_, _, _)
SelfChainHeight(db, address, h) ==
    IF ChainKey(address, h) \in DOMAIN db
    THEN SelfChainHeight(db, address, h + 1)
    ELSE h

\* A balance that adds the credits and leaves the debits out.
RECURSIVE SelfChainBalanceCreditsOnly(_, _, _, _)
SelfChainBalanceCreditsOnly(db, address, h, balance) ==
    IF ChainKey(address, h) \notin DOMAIN db
    THEN balance
    ELSE LET tx == DeserializeRecord(db[ChainKey(address, h)]).rec.transaction
             n == IF IsPublic(tx.amount) THEN tx.amount[2] ELSE 0
             credited == IF tx.to = address THEN balance + n ELSE balance
         IN  SelfChainBalanceCreditsOnly(db, address, h + 1, credited)

RECURSIVE SelfChainBalance(_, _, _, _)
SelfChainBalance(db, address, h, balance) ==
    IF ChainKey(address, h) \notin DOMAIN db
    THEN balance
    ELSE LET tx == DeserializeRecord(db[ChainKey(address, h)]).rec.transaction
             n == IF IsPublic(tx.amount) THEN tx.amount[2] ELSE 0
             credited == IF tx.to = address THEN balance + n ELSE balance
             debited == IF tx.from = address THEN credited - n ELSE credited
         IN  SelfChainBalance(db, address, h + 1, debited)

GetBalanceAndHeight(db, address) ==
    << SelfChainBalance(db, address, 0, 0), SelfChainHeight(db, address, 0) >>

\* ------------------------------------- the engine behind rpc.rs and main.rs
\* rpc.rs and main.rs call a TransactionManager that transaction_manager.rs
\* does not define: add_transaction with six arguments and
\* get_address_balance_and_selfchain_height (rpc.rs), add_transaction with
\* tx_request.id before the signature (main.rs). That engine is the ledger
\* engine of the specification (4.3, 4.4): records under hex(address):height,
\* the genesis of an address at height 0.

\* load_genesis of the specification: for each entry of the manifest the
\* Public credit from the zero address, stored at height 0 of the address
\* unless the address has its genesis already.
RECURSIVE LedgerLoadGenesis(_, _, _)
LedgerLoadGenesis(db, balances, todo) ==
    IF todo = {} THEN db
    ELSE LET address == CHOOSE s \in todo : TRUE
             key == ChainKey(FromHex(address), 0)
             loaded == IF key \in DOMAIN db THEN db
                       ELSE Put(db, key,
                                ReadableRecord(GenesisRecord(address, balances[address])))
         IN  LedgerLoadGenesis(loaded, balances, todo \ {address})

\* The ids of the last transaction on the self-chain of address: one id, or
\* none when the chain is empty.
HeadIds(db, address) ==
    LET height == SelfChainHeight(db, address, 0) IN
    IF height = 0 THEN {}
    ELSE { CalculateId(DeserializeRecord(db[ChainKey(address, height - 1)]).rec.transaction) }

\* The id a transaction of the sender `address` has to name as its previous
\* transaction: that of the last transaction on the sender's self-chain,
\* the genesis of the sender while nothing follows it; the zero id when the
\* chain is empty.
SelfChainHead(db, address) ==
    IF HeadIds(db, address) = {} THEN ZeroHash
    ELSE CHOOSE id \in HeadIds(db, address) : TRUE

\* The keys of the self-chains under which db holds the record of the
\* transaction with the id `id`.
ChainKeysOf(db, id) ==
    { k \in DOMAIN db :
        /\ k[1] = "txt"
        /\ k[3] >= 0
        /\ DeserializeRecord(db[k]).ok
        /\ CalculateId(DeserializeRecord(db[k]).rec.transaction) = id }

\* Step 3 of add_transaction, the chain walk: from the record with the id
\* `id` backward through the previous_transaction_id pointers, collecting
\* each amount until a Public amount is reached. The walk is broken when a
\* record pointed to is missing; a walk of more steps than there are records
\* ends at no Public record.
RECURSIVE WalkBack(_, _, _, _)
WalkBack(db, id, commitments, fuel) ==
    IF fuel = 0 \/ ChainKeysOf(db, id) = {}
    THEN [ ok |-> FALSE, chain |-> commitments ]
    ELSE LET key == CHOOSE k \in ChainKeysOf(db, id) : TRUE
             tx == DeserializeRecord(db[key]).rec.transaction
         IN  IF IsPublic(tx.amount)
             THEN [ ok |-> TRUE, chain |-> Append(commitments, tx.amount) ]
             ELSE WalkBack(db, tx.previous_transaction_id,
                           Append(commitments, tx.amount), fuel - 1)

\* An admission that runs the checks and returns the id without the write
\* of step 6.
LedgerAddTransactionNotPersisted(db, from, to, amount, public_key, timestamp, previous_transaction_id, signature) ==
    LET transaction == Tx(from, to, amount, timestamp, previous_transaction_id)
        id == CalculateId(transaction)
        walk == WalkBack(db, previous_transaction_id, << amount >>,
                         Cardinality(DOMAIN db) + 1)
        consistent == CheckWindows(walk.chain, 1)
    IN  IF ~Verify(public_key, id, signature)
        THEN [ ok |-> FALSE, kind |-> "InvalidSignature", cause |-> "Verify",
               value |-> << >>, db |-> db ]
        ELSE IF previous_transaction_id # SelfChainHead(db, from) \/ ~walk.ok
        THEN [ ok |-> FALSE, kind |-> "ChainBroken", cause |-> "ChainWalk",
               value |-> << >>, db |-> db ]
        ELSE IF ~consistent.ok /\ consistent.cause = "RangeProof"
        THEN [ ok |-> FALSE, kind |-> "InvalidRangeProof", cause |-> "RangeProof",
               value |-> << >>, db |-> db ]
        ELSE IF ~(consistent.ok /\ consistent.val)
        THEN [ ok |-> FALSE, kind |-> "InsufficientBalance", cause |-> "Commitments",
               value |-> << >>, db |-> db ]
        ELSE IF IsPublic(amount) /\ SelfChainBalance(db, from, 0, 0) < amount[2]
        THEN [ ok |-> FALSE, kind |-> "InsufficientBalance", cause |-> "Underflow",
               value |-> << >>, db |-> db ]
        ELSE [ ok |-> TRUE, kind |-> "Ok", cause |-> "", value |-> HexEncode(id),
               db |-> db ]

\* add_transaction(from, to, amount, pk, timestamp, previous_transaction_id,
\* signature) of the specification, steps 1 to 7: the id; the signature
\* check; the chain walk from the head of the sender's self-chain, which the
\* transaction has to name as its previous transaction; the comparison of
\* each collected amount with the next, the list beginning with the amount
\* of the new transaction (verify_greater_than and verify_greater_than_u64
\* of confidential.rs); the balance check of a Public amount; the append of
\* the record, as Confirmed, to the self-chains of sender and recipient in
\* one write; hex(id).
LedgerAddTransaction(db, from, to, amount, public_key, timestamp, previous_transaction_id, signature) ==
    LET transaction == Tx(from, to, amount, timestamp, previous_transaction_id)
        id == CalculateId(transaction)
        walk == WalkBack(db, previous_transaction_id, << amount >>,
                         Cardinality(DOMAIN db) + 1)
        consistent == CheckWindows(walk.chain, 1)
        record == ReadableRecord([ transaction |-> transaction, status |-> "Confirmed",
                                   signature |-> signature ])
        appended == Put(db, ChainKey(from, SelfChainHeight(db, from, 0)), record)
    IN  IF ~Verify(public_key, id, signature)
        THEN [ ok |-> FALSE, kind |-> "InvalidSignature", cause |-> "Verify",
               value |-> << >>, db |-> db ]
        ELSE IF previous_transaction_id # SelfChainHead(db, from) \/ ~walk.ok
        THEN [ ok |-> FALSE, kind |-> "ChainBroken", cause |-> "ChainWalk",
               value |-> << >>, db |-> db ]
        ELSE IF ~consistent.ok /\ consistent.cause = "RangeProof"
        THEN [ ok |-> FALSE, kind |-> "InvalidRangeProof", cause |-> "RangeProof",
               value |-> << >>, db |-> db ]
        ELSE IF ~(consistent.ok /\ consistent.val)
        THEN [ ok |-> FALSE, kind |-> "InsufficientBalance", cause |-> "Commitments",
               value |-> << >>, db |-> db ]
        ELSE IF IsPublic(amount) /\ SelfChainBalance(db, from, 0, 0) < amount[2]
        THEN [ ok |-> FALSE, kind |-> "InsufficientBalance", cause |-> "Underflow",
               value |-> << >>, db |-> db ]
        ELSE [ ok |-> TRUE, kind |-> "Ok", cause |-> "", value |-> HexEncode(id),
               db |-> Put(appended, ChainKey(to, SelfChainHeight(appended, to, 0)), record) ]

\* A balance read that leaves a mark in the store.
GetAddressBalanceAndSelfchainHeightWriting(db, address) ==
    IF \E k \in DOMAIN db :
          k[1] = "txt" /\ k[2] = address /\ k[3] >= 0 /\ ~DeserializeRecord(db[k]).ok
    THEN [ ok |-> FALSE, value |-> << 0, 0 >>, db |-> db ]
    ELSE [ ok |-> TRUE, value |-> GetBalanceAndHeight(db, address),
           db |-> Put(db, RawKey(ZeroHash), << >>) ]

\* get_address_balance_and_selfchain_height as rpc.rs calls it:
\* get_balance_and_height of the specification, which opens a read snapshot,
\* iterates the records of the address and returns (balance, next height),
\* or an error when a record of the self-chain cannot be read; the store it
\* leaves is the store it was given.
GetAddressBalanceAndSelfchainHeight(db, address) ==
    IF \E k \in DOMAIN db :
          k[1] = "txt" /\ k[2] = address /\ k[3] >= 0 /\ ~DeserializeRecord(db[k]).ok
    THEN [ ok |-> FALSE, value |-> << 0, 0 >>, db |-> db ]
    ELSE [ ok |-> TRUE, value |-> GetBalanceAndHeight(db, address), db |-> db ]

\* ------------------------------------------------------------------- state
VARIABLES
    store,      \* the LMDB database: key -> value
    before,     \* the store when the call in progress was made
    pc,         \* "idle", or "returned" once a call has returned to its caller
    call,       \* the engine call made last: its name and arguments
    result,     \* what that call returned
    queue,      \* the mpsc channel of QueuedTransaction items, oldest first
    backlog,    \* items of earlier connections still in the channel, ahead of queue
    hpc,        \* per RPC handler task: its position in the handler's code
    reply,      \* per RPC handler task: what came over its oneshot channel
    cpc,        \* the queue consumer: "recv", "lock", "call" or "reply"
    current,    \* the item the consumer took from the channel
    lock,       \* the holder of the Mutex around the TransactionManager
    sendLog,    \* history: the handlers in the order they called send on the channel
    engineLog,  \* history: the handlers in the order the engine was called
    params,     \* per handler task of main.rs: the params of its request
    socket,     \* per handler task: the request read from and the response written to its socket
    spc,        \* the swarm task of main.rs: its position in handle_swarm_events
    message,    \* the data of the Floodsub message the swarm task is handling
    published,  \* the responses the swarm task has published on the topic, oldest first
    replica,    \* the LMDB database of a second engine given the same calls
    replicaResult \* what the call made last returned on the second engine

engine == << store, before, pc, call, result >>

rpc == << queue, backlog, hpc, reply, cpc, current, lock, sendLog, engineLog, params >>

net == << socket, spc, message, published >>

second == << replica, replicaResult >>

vars == << store, before, pc, call, result,
           queue, backlog, hpc, reply, cpc, current, lock, sendLog, engineLog, params,
           socket, spc, message, published, replica, replicaResult >>

NoCall == [ op |-> "none" ]

NoResult == [ ok |-> TRUE, kind |-> "none", cause |-> "", value |-> << >> ]

Manifests ==
    UNION { [ S -> 0..MaxAmount ] : S \in SUBSET { TextKey(a) : a \in Addr } }

\* The ids a caller can name as previous transaction: the zero hash, a hash of
\* nothing stored, and the id of every genesis transaction in the store.
GenesisIds(db) ==
    { CalculateId(DeserializeRecord(db[k]).rec.transaction) :
        k \in { j \in DOMAIN db : j[1] = "txt" } }

PrevChoices(db) == {ZeroHash, RandomHash} \cup GenesisIds(db)

Handlers == 1..MaxRequests

NoItem == [ h |-> 0, request |-> << "none" >> ]

NoRequest == << "none" >>

NoResponse == [ status |-> 0 ]

NoMessage == << "none" >>

InitNet ==
    /\ socket = [ h \in Handlers |-> [ request |-> NoRequest, response |-> NoResponse ] ]
    /\ spc = "select"
    /\ message = NoMessage
    /\ published = << >>
    /\ replica = EmptyStore
    /\ replicaResult = NoResult

InitRpc ==
    /\ queue = << >>
    /\ backlog = 0
    /\ hpc = [ h \in Handlers |-> "new" ]
    /\ reply = [ h \in Handlers |-> NoResult ]
    /\ cpc = "recv"
    /\ current = NoItem
    /\ lock = "free"
    /\ sendLog = << >>
    /\ engineLog = << >>
    /\ params = [ h \in Handlers |-> NoItem.request ]
    /\ InitNet

Init ==
    /\ store = EmptyStore
    /\ before = EmptyStore
    /\ pc = "idle"
    /\ call = NoCall
    /\ result = NoResult
    /\ InitRpc

LoadGenesis ==
    /\ pc = "idle"
    /\ \E balances \in Manifests :
        /\ store' = LoadGenesisTransactions(store, balances)
        /\ call' = [ op |-> "load_genesis", balances |-> balances ]
    /\ result' = [ ok |-> TRUE, kind |-> "Ok", cause |-> "", value |-> << >> ]
    /\ before' = store
    /\ pc' = "returned"
    /\ UNCHANGED << rpc, net, second >>

SubmitTransaction ==
    /\ pc = "idle"
    /\ \E from \in Addr, to \in Addr, amount \in Amounts, public_key \in Keys,
          timestamp \in 1..MaxTime, previous_transaction_id \in PrevChoices(store) :
        LET id == CalculateId(Tx(from, to, amount, timestamp, previous_transaction_id)) IN
        \E signature \in { Sign(k, id) : k \in Keys } \cup { Sign(public_key, ZeroHash) } :
            LET r == AddTransaction(store, from, to, amount, public_key, timestamp,
                                    signature, previous_transaction_id) IN
            /\ store' = r.db
            /\ call' = [ op |-> "add_transaction", from |-> from, to |-> to,
                         amount |-> amount, public_key |-> public_key,
                         timestamp |-> timestamp, signature |-> signature,
                         previous_transaction_id |-> previous_transaction_id ]
            /\ result' = [ ok |-> r.ok, kind |-> r.kind, cause |-> r.cause,
                           value |-> r.value ]
    /\ before' = store
    /\ pc' = "returned"
    /\ UNCHANGED << rpc, net, second >>

QueryBalance ==
    /\ pc = "idle"
    /\ \E address \in Addr :
        /\ call' = [ op |-> "get_balance_and_height", address |-> address ]
        /\ result' = [ ok |-> TRUE, kind |-> "Ok", cause |-> "",
                       value |-> GetBalanceAndHeight(store, address) ]
    /\ before' = store
    /\ pc' = "returned"
    /\ UNCHANGED << rpc, net, second >>
    /\ UNCHANGED store

Return ==
    /\ pc = "returned"
    /\ pc' = "idle"
    /\ call' = NoCall
    /\ result' = NoResult
    /\ before' = store
    /\ UNCHANGED store
    /\ UNCHANGED << rpc, net, second >>

Next == LoadGenesis \/ SubmitTransaction \/ QueryBalance \/ Return

Spec == Init /\ [][Next]_vars

\* ------------------------------------------------ stores holding self-chains
\* The transfers between two different addresses, of every amount.
SampleTransfers ==
    { Tx(pair[1], pair[2], amount, 1, ZeroHash) :
        pair \in { q \in Addr \X Addr : q[1] # q[2] }, amount \in Amounts }

\* The transfers of txs that address sends or receives, in order.
Involving(txs, address) ==
    SelectSeq(txs, LAMBDA t : t.from = address \/ t.to = address)

\* The genesis credit that covers every debit of a chain of MaxChain transfers.
ChainGenesisAmount == MaxAmount * MaxChain

\* The store after the admission of the transfers txs, in the layout of the
\* self-chains: under hex(address):0 the genesis record of the address, under
\* hex(address):h the h-th transfer that the address sends or receives, every
\* record in the bytes the decoder reads.
ChainStore(txs) ==
    [ k \in UNION { { ChainKey(a, h) : h \in 0..Len(Involving(txs, a)) } : a \in Addr } |->
        IF k[3] = 0
        THEN ReadableRecord(GenesisRecord(TextKey(k[2]), ChainGenesisAmount))
        ELSE LET tx == Involving(txs, k[2])[k[3]] IN
             ReadableRecord([ transaction |-> tx, status |-> "Confirmed",
                              signature |-> Sign(KeyOf(tx.from), CalculateId(tx)) ]) ]

ChainStores ==
    { ChainStore(txs) :
        txs \in UNION { [ 1..n -> SampleTransfers ] : n \in 0..MaxChain } }

InitBalance ==
    /\ store \in ChainStores
    /\ before = store
    /\ pc = "idle"
    /\ call = NoCall
    /\ result = NoResult
    /\ InitRpc

NextBalance == QueryBalance \/ Return

SpecBalance == InitBalance /\ [][NextBalance]_vars

\* ------------------------------------------------------ the stored encodings
\* The transactions of the model.
AllTransactions ==
    { Tx(pair[1], pair[2], amount, timestamp, prev) :
        pair \in Addr \X Addr, amount \in Amounts, timestamp \in 0..MaxTime,
        prev \in { ZeroHash, RandomHash } }

\* The persist step of add_transaction up to the put: the bytes it builds for
\* the transaction it was given.
SerializeForPut ==
    /\ pc = "idle"
    /\ \E tx \in AllTransactions :
        /\ call' = [ op |-> "serialize", transaction |-> tx ]
        /\ result' = [ ok |-> TRUE, kind |-> "Ok", cause |-> "",
                       value |-> SerializeTransaction(tx) ]
    /\ before' = store
    /\ pc' = "returned"
    /\ UNCHANGED << store, rpc, net, second >>

NextCodec == LoadGenesis \/ SerializeForPut \/ Return

SpecCodec == Init /\ [][NextCodec]_vars

\* ------------------------------------------------------- transaction ids
\* The transactions whose ids are compared: every pair of addresses, every
\* Public amount and every ciphertext, every timestamp, two previous ids.
HashTransactions ==
    { Tx(pair[1], pair[2], amount, timestamp, prev) :
        pair \in Addr \X Addr,
        amount \in { Public(n) : n \in 0..MaxAmount }
                      \cup { Confidential(c) : c \in HashCiphers },
        timestamp \in 0..MaxTime,
        prev \in { ZeroHash, RandomHash } }

\* calculate_id on a transaction.
CalculateIdOf ==
    /\ pc = "idle"
    /\ \E tx \in HashTransactions :
        /\ call' = [ op |-> "calculate_id", transaction |-> tx ]
        /\ result' = [ ok |-> TRUE, kind |-> "Ok", cause |-> "",
                       value |-> CalculateId(tx) ]
    /\ before' = store
    /\ pc' = "returned"
    /\ UNCHANGED << store, rpc, net, second >>

NextHash == CalculateIdOf \/ Return

SpecHash == Init /\ [][NextHash]_vars

\* ------------------------------------------------------ ElGamal amounts
\* The curve y^2 = x^3 + 7 of k256 over a field small enough to enumerate:
\* 31 points, a group of prime order. A point is << x, y >>, the identity
\* << >>.
FieldPrime == 43
CurveB == 7
GroupOrder == 31
GENERATOR == << 2, 12 >>
IDENTITY == << >>

\* u64 at the width of the model; u64::MAX stays below the group order.
U64Bits == 4
U64Max == 2 ^ U64Bits - 1

Inverse(a) == CHOOSE b \in 1..(FieldPrime - 1) : (a * b) % FieldPrime = 1

PointAdd(a, b) ==
    IF a = IDENTITY THEN b
    ELSE IF b = IDENTITY THEN a
    ELSE IF a[1] = b[1] /\ (a[2] + b[2]) % FieldPrime = 0 THEN IDENTITY
    ELSE LET slope == IF a = b
                      THEN (3 * a[1] * a[1] * Inverse((2 * a[2]) % FieldPrime)) % FieldPrime
                      ELSE ((b[2] + FieldPrime - a[2])
                               * Inverse((b[1] + FieldPrime - a[1]) % FieldPrime)) % FieldPrime
             x == (slope * slope + 2 * FieldPrime - a[1] - b[1]) % FieldPrime
         IN  << x, (slope * (a[1] + FieldPrime - x) + FieldPrime - a[2]) % FieldPrime >>

PointNeg(a) == IF a = IDENTITY THEN a ELSE << a[1], (FieldPrime - a[2]) % FieldPrime >>

RECURSIVE ScalarMul(_, _)
ScalarMul(k, pt) == IF k = 0 THEN IDENTITY ELSE PointAdd(pt, ScalarMul(k - 1, pt))

\* g * k256::Scalar::from(n) for every u64 n.
GeneratorMultiples == [ n \in 0..U64Max |-> ScalarMul(n, GENERATOR) ]

\* to_affine().to_encoded_point(false): the identity is the single byte 0,
\* any other point the byte 4 followed by x and y, big-endian.
EncodedPoint(pt) == IF pt = IDENTITY THEN << 0 >> ELSE << 4, pt[1], pt[2] >>

\* Ordering::Less of the slices a and b.
BytesLess(a, b) ==
    \/ \E i \in 1..Len(a) :
          /\ i <= Len(b)
          /\ a[i] < b[i]
          /\ \A j \in 1..(i - 1) : a[j] = b[j]
    \/ /\ Len(a) < Len(b)
       /\ \A j \in 1..Len(a) : a[j] = b[j]

\* encrypt with the random scalar r: (r*G, m*G + r*P) and a range proof of
\* the amount.
Encrypt(amount, public_key, r) ==
    [ c1 |-> ScalarMul(r, GENERATOR),
      c2 |-> PointAdd(GeneratorMultiples[amount], ScalarMul(r, public_key)),
      range_proof |-> << "proof", amount >> ]

\* The loop of find_exact_discrete_log from (low, high). The sum low + high
\* is a u64: with overflow checks an overflow panics, without them it wraps.
\* seen holds the pairs (low, high) the loop has been at: the loop is a
\* function of the pair, so a pair met twice is met forever.
RECURSIVE Search(_, _, _, _, _)
Search(point, low, high, overflow_checks, seen) ==
    IF low > high
    THEN [ ok |-> FALSE, kind |-> "Err", cause |-> "Could not find exact value",
           value |-> << >> ]
    ELSE IF << low, high >> \in seen
    THEN [ ok |-> FALSE, kind |-> "Diverges", cause |-> "", value |-> << >> ]
    ELSE IF low + high > U64Max /\ overflow_checks
    THEN [ ok |-> FALSE, kind |-> "Panic", cause |-> "attempt to add with overflow",
           value |-> << >> ]
    ELSE LET mid == ((low + high) % (U64Max + 1)) \div 2
             test_affine == EncodedPoint(GeneratorMultiples[mid])
             point_affine == EncodedPoint(point)
         IN  IF test_affine = point_affine
             THEN [ ok |-> TRUE, kind |-> "Ok", cause |-> "", value |-> mid ]
             ELSE IF BytesLess(test_affine, point_affine)
             THEN Search(point, mid + 1, high, overflow_checks,
                         seen \cup { << low, high >> })
             ELSE Search(point, low, mid - 1, overflow_checks,
                         seen \cup { << low, high >> })

FindExactDiscreteLog(point, overflow_checks) ==
    Search(point, 0, U64Max, overflow_checks, { })

\* decrypt: c2 - priv_key * c1 = m*G, then the discrete log of m*G.
Decrypt(cipher, private_key, overflow_checks) ==
    FindExactDiscreteLog(PointAdd(cipher.c2, PointNeg(ScalarMul(private_key, cipher.c1))),
                         overflow_checks)

\* encrypt an amount to the public key of a secret key, then decrypt the
\* ciphertext with the secret key, in a build with or without overflow
\* checks.
EncryptThenDecrypt ==
    /\ pc = "idle"
    /\ \E amount \in 0..U64Max, private_key \in 1..MaxSecret, r \in 1..MaxBlinding,
          overflow_checks \in BOOLEAN :
        LET cipher == Encrypt(amount, ScalarMul(private_key, GENERATOR), r) IN
        /\ call' = [ op |-> "decrypt", amount |-> amount, private_key |-> private_key,
                     cipher |-> cipher, overflow_checks |-> overflow_checks ]
        /\ result' = Decrypt(cipher, private_key, overflow_checks)
    /\ before' = store
    /\ pc' = "returned"
    /\ UNCHANGED << store, rpc, net, second >>

NextElGamal == EncryptThenDecrypt \/ Return

SpecElGamal == Init /\ [][NextElGamal]_vars

\* ------------------------------------------------ stores keyed by the id
\* Stores in which the chain walk finds records: every record sits under the
\* id of its transaction, in bytes the decoder of the walk reads. A store
\* holds a genesis record for some of the addresses and at most one transfer
\* that names the genesis of its sender as previous transaction.
WalkGenesis == { GenesisRecord(TextKey(a), MaxAmount) : a \in Addr }

WalkTransfers(genesis) ==
    { [ transaction |-> Tx(g.transaction.to, to, amount, 1, CalculateId(g.transaction)),
        status |-> "Confirmed",
        signature |-> Sign(KeyOf(g.transaction.to),
                           CalculateId(Tx(g.transaction.to, to, amount, 1,
                                          CalculateId(g.transaction)))) ] :
        g \in genesis, to \in Addr, amount \in Amounts }

IdKeyed(records) ==
    [ k \in { RawKey(CalculateId(r.transaction)) : r \in records } |->
        ReadableRecord(CHOOSE r \in records : RawKey(CalculateId(r.transaction)) = k) ]

WalkStores ==
    UNION { { IdKeyed(genesis \cup transfers) :
                transfers \in { { } } \cup { { t } : t \in WalkTransfers(genesis) } } :
            genesis \in SUBSET WalkGenesis }

\* The ids under which the store holds a record.
StoredIds(db) == { k[2] : k \in { j \in DOMAIN db : j[1] = "raw" } }

InitWalk ==
    /\ store \in WalkStores
    /\ before = store
    /\ pc = "idle"
    /\ call = NoCall
    /\ result = NoResult
    /\ InitRpc

\* add_transaction of a transaction that names a stored record, or nothing,
\* as previous transaction.
SubmitToChain ==
    /\ pc = "idle"
    /\ \E from \in Addr, to \in Addr, amount \in Amounts, public_key \in Keys,
          timestamp \in 1..MaxTime,
          previous_transaction_id \in { ZeroHash } \cup StoredIds(store) :
        LET id == CalculateId(Tx(from, to, amount, timestamp, previous_transaction_id)) IN
        \E signature \in { Sign(public_key, id), Sign(public_key, ZeroHash) } :
            LET r == AddTransaction(store, from, to, amount, public_key, timestamp,
                                    signature, previous_transaction_id) IN
            /\ store' = r.db
            /\ call' = [ op |-> "add_transaction", from |-> from, to |-> to,
                         amount |-> amount, public_key |-> public_key,
                         timestamp |-> timestamp, signature |-> signature,
                         previous_transaction_id |-> previous_transaction_id ]
            /\ result' = [ ok |-> r.ok, kind |-> r.kind, cause |-> r.cause,
                           value |-> r.value ]
    /\ before' = store
    /\ pc' = "returned"
    /\ UNCHANGED << rpc, net, second >>

NextWalk == SubmitToChain \/ Return

SpecWalk == InitWalk /\ [][NextWalk]_vars

\* ------------------------------------------------ two engines, the same calls
\* The orders in which the iteration over the HashMap of a manifest can visit
\* its entries.
Orders(S) == { o \in [ 1..Cardinality(S) -> S ] : \A x \in S : \E i \in DOMAIN o : o[i] = x }

\* The for loop of load_genesis_transactions, visiting the entries of the
\* manifest in the given order.
RECURSIVE PutEach(_, _, _)
PutEach(db, balances, order) ==
    IF order = << >> THEN db
    ELSE LET address == Head(order) IN
         PutEach(Put(db, address, SerializeRecord(GenesisRecord(address, balances[address]))),
                 balances, Tail(order))

\* The stores the two engines open: the fresh one, and those that hold the
\* genesis record of Alice and a transfer of hers to Bob under their ids,
\* where the chain walk finds them.
ReplayStores ==
    { EmptyStore } \cup
    { db \in WalkStores :
        /\ Cardinality(DOMAIN db) = 2
        /\ \E k \in DOMAIN db : /\ DeserializeRecord(db[k]).rec.transaction.from = ALICE_ADDRESS
                                /\ DeserializeRecord(db[k]).rec.transaction.to = BOB_ADDRESS }

\* Both engines load the same manifest; each iterates it in its own order.
ReplayLoadGenesis ==
    /\ pc = "idle"
    /\ \E balances \in Manifests :
        /\ \E o1 \in Orders(DOMAIN balances), o2 \in Orders(DOMAIN balances) :
              /\ store' = PutEach(store, balances, o1)
              /\ replica' = PutEach(replica, balances, o2)
        /\ call' = [ op |-> "load_genesis", balances |-> balances ]
    /\ result' = [ ok |-> TRUE, kind |-> "Ok", cause |-> "", value |-> << >> ]
    /\ replicaResult' = [ ok |-> TRUE, kind |-> "Ok", cause |-> "", value |-> << >> ]
    /\ before' = store
    /\ pc' = "returned"
    /\ UNCHANGED << rpc, net >>

\* add_transaction built with Transaction::new, which stamps the
\* transaction with the clock of the engine.
AddTransactionStamped(db, now, from, to, amount, public_key, timestamp, signature, previous_transaction_id) ==
    AddTransaction(db, from, to, amount, public_key, now, signature,
                   previous_transaction_id)

\* add_transaction on an engine whose clock reads `now` when it is called:
\* the transaction is the struct literal of the arguments, the timestamp
\* among them, and the clock is not read.
AddTransactionAt(db, now, from, to, amount, public_key, timestamp, signature, previous_transaction_id) ==
    AddTransaction(db, from, to, amount, public_key, timestamp, signature,
                   previous_transaction_id)

\* Both engines are given the same add_transaction call, the second engine
\* after the first: its clock reads a later time.
ReplayAddTransaction ==
    /\ pc = "idle"
    /\ \E from \in Addr, to \in Addr, amount \in Amounts, public_key \in Keys,
          timestamp \in 1..MaxTime,
          previous_transaction_id \in PrevChoices(store) \cup StoredIds(store),
          now \in 0..MaxTime :
        LET id == CalculateId(Tx(from, to, amount, timestamp, previous_transaction_id)) IN
        \E signature \in { Sign(public_key, id), Sign(public_key, ZeroHash) } :
            LET r1 == AddTransactionAt(store, now, from, to, amount, public_key, timestamp,
                                       signature, previous_transaction_id)
                r2 == AddTransactionAt(replica, now + 1, from, to, amount, public_key,
                                       timestamp, signature, previous_transaction_id) IN
            /\ store' = r1.db
            /\ replica' = r2.db
            /\ call' = [ op |-> "add_transaction", from |-> from, to |-> to,
                         amount |-> amount, public_key |-> public_key,
                         timestamp |-> timestamp, signature |-> signature,
                         previous_transaction_id |-> previous_transaction_id ]
            /\ result' = [ ok |-> r1.ok, kind |-> r1.kind, cause |-> r1.cause,
                           value |-> r1.value ]
            /\ replicaResult' = [ ok |-> r2.ok, kind |-> r2.kind, cause |-> r2.cause,
                                  value |-> r2.value ]
    /\ before' = store
    /\ pc' = "returned"
    /\ UNCHANGED << rpc, net >>

\* Two engines that have opened the same store.
InitReplay ==
    /\ store \in ReplayStores
    /\ before = store
    /\ pc = "idle"
    /\ call = NoCall
    /\ result = NoResult
    /\ queue = << >>
    /\ backlog = 0
    /\ hpc = [ h \in Handlers |-> "new" ]
    /\ reply = [ h \in Handlers |-> NoResult ]
    /\ cpc = "recv"
    /\ current = NoItem
    /\ lock = "free"
    /\ sendLog = << >>
    /\ engineLog = << >>
    /\ params = [ h \in Handlers |-> NoItem.request ]
    /\ socket = [ h \in Handlers |-> [ request |-> NoRequest, response |-> NoResponse ] ]
    /\ spc = "select"
    /\ message = NoMessage
    /\ published = << >>
    /\ replica = store
    /\ replicaResult = NoResult

\* The call has returned on both engines.
ReplayReturn ==
    /\ pc = "returned"
    /\ pc' = "idle"
    /\ call' = NoCall
    /\ result' = NoResult
    /\ replicaResult' = NoResult
    /\ before' = store
    /\ UNCHANGED << store, replica, rpc, net >>

NextReplay == ReplayLoadGenesis \/ ReplayAddTransaction \/ ReplayReturn

SpecReplay == InitReplay /\ [][NextReplay]_vars

\* --------------------------------------------------------- reads by id
\* bincode::deserialize::<Transaction>: the fields of the transaction are
\* read from the front of the bytes and what follows them is left unread.
DeserializeTransaction(bytes) ==
    IF Len(bytes) >= 1 /\ DeserializeAmount(bytes[1].amount).ok
    THEN [ ok |-> TRUE,
           transaction |->
               [ bytes[1] EXCEPT !.amount = DeserializeAmount(bytes[1].amount).amount ] ]
    ELSE [ ok |-> FALSE ]

\* get_transaction: the key read is the text it is given, byte for byte.
GetTransaction(db, id) ==
    IF id \notin DOMAIN db
    THEN [ ok |-> FALSE, kind |-> "NotFound", cause |-> "Transaction not found",
           value |-> << >> ]
    ELSE LET d == DeserializeTransaction(db[id]) IN
         IF d.ok
         THEN [ ok |-> TRUE, kind |-> "Ok", cause |-> "", value |-> << d.transaction >> ]
         ELSE [ ok |-> FALSE, kind |-> "Deserialize", cause |-> "Deserialize",
                value |-> << >> ]

\* The texts get_transaction is called with: the hex text of every id the
\* store holds a value under and of the zero hash, and the hex text of every
\* address.
LookupIds(db) ==
    { HexEncode(h) : h \in { ZeroHash } \cup StoredIds(db) }
        \cup { TextKey(a) : a \in Addr }

GetTransactionOf ==
    /\ pc = "idle"
    /\ \E id \in LookupIds(store) :
        /\ call' = [ op |-> "get_transaction", id |-> id ]
        /\ result' = GetTransaction(store, id)
    /\ before' = store
    /\ pc' = "returned"
    /\ UNCHANGED << store, rpc, net, second >>

NextLookup == LoadGenesis \/ SubmitToChain \/ GetTransactionOf \/ Return

SpecLookup == InitWalk /\ [][NextLookup]_vars

\* ------------------------------------------------- admission queue and RPC
Transfer(req) == << "Transfer", req >>

GetBalance(address) == << "GetBalance", address >>

\* Public key bytes that are the encoding of no key: 32 bytes that are not the
\* SEC1 encoding of a point and not the encoding of an Edwards point either.
NotAPoint == BOB_ADDRESS + 1

\* The requests the RPC clients of the model send while the store is db:
\* transfers of MaxAmount from Alice to Bob that name the head of Alice's
\* self-chain as previous transaction, correctly signed or signed over
\* another message, and the balance query for Alice. There is none while
\* Alice has no self-chain.
RpcTransfers(db) ==
    UNION { { [ from |-> ALICE_ADDRESS, to |-> BOB_ADDRESS, amount |-> Public(MaxAmount),
                public_key |-> KeyOf(ALICE_ADDRESS), timestamp |-> 1,
                signature |-> Sign(KeyOf(ALICE_ADDRESS), msg),
                previous_transaction_id |-> prev ] :
              msg \in { ZeroHash,
                        CalculateId(Tx(ALICE_ADDRESS, BOB_ADDRESS, Public(MaxAmount), 1, prev)) } } :
            prev \in HeadIds(db, ALICE_ADDRESS) }

\* The same transfers with public key bytes that are no key.
NoKeyTransfers(db) ==
    { [ from |-> ALICE_ADDRESS, to |-> BOB_ADDRESS, amount |-> Public(MaxAmount),
        public_key |-> NotAPoint, timestamp |-> 1,
        signature |-> Sign(KeyOf(ALICE_ADDRESS), ZeroHash),
        previous_transaction_id |-> prev ] : prev \in HeadIds(db, ALICE_ADDRESS) }

\* The JSON objects that reach the node as params[0] of submitTransaction,
\* over HTTP and gossip: every member but the public key is well-formed.
TransferRequests(db) == RpcTransfers(db) \cup NoKeyTransfers(db)

JsonNull == << "null" >>

\* A JSON value from which no StealthMetadata can be read.
NoStealthMetadata == << "str", "zz" >>

\* The JSON object { "ephemeral_public_key": base64 of the SEC1 bytes of
\* key, "view_tag": 0 }.
StealthObject(key) == << "obj", key, 0 >>

\* The same StealthMetadata written as the JSON array [ base64 of the SEC1
\* bytes of key, 0 ].
StealthArray(key) == << "arr", key, 0 >>

\* The correctly signed transfers with the optional member
\* stealth_metadata: null, a value that is no StealthMetadata, a
\* StealthMetadata object, the same written as an array, and an object
\* whose key is no curve point.
StealthRequests(db) ==
    { [ f \in DOMAIN t \cup { "stealth_metadata" } |->
          IF f = "stealth_metadata" THEN m ELSE t[f] ] :
      t \in { r \in RpcTransfers(db) : r.signature[2] # ZeroHash },
      m \in { JsonNull, NoStealthMetadata, StealthObject(KeyOf(BOB_ADDRESS)),
              StealthArray(KeyOf(BOB_ADDRESS)), StealthObject(NotAPoint) } }

\* The fields of a TransactionRequest in the order of the struct.
TransactionRequestOrder ==
    << "from", "to", "amount", "public_key", "signature", "timestamp",
       "previous_transaction_id", "stealth_metadata" >>

\* A JSON array, held under the one name "array".
JsonArray(elements) == [ array |-> elements ]

\* The correctly signed transfers written as JSON arrays: the values of the
\* eight fields in the order of the struct, with null for stealth_metadata,
\* and the first seven only.
ArrayRequests(db) ==
    { JsonArray([ i \in 1..n |->
                    IF TransactionRequestOrder[i] = "stealth_metadata" THEN JsonNull
                    ELSE t[TransactionRequestOrder[i]] ]) :
      t \in { r \in RpcTransfers(db) : r.signature[2] # ZeroHash },
      n \in { Len(TransactionRequestOrder) - 1, Len(TransactionRequestOrder) } }

\* The items handle_rpc_request puts into the channel: the requests that
\* serde_json::from_value has accepted, and the balance query.
RpcItems(db) ==
    { Transfer(req) : req \in RpcTransfers(db) } \cup { GetBalance(ALICE_ADDRESS) }

\* The members serde requires of the JSON object of a TransactionRequest.
TransactionRequestFields ==
    { "from", "to", "amount", "public_key", "signature", "timestamp",
      "previous_transaction_id" }

\* deserialize_hex_to_public_key: the hex text decodes to the SEC1 encoding,
\* compressed or uncompressed, of a curve point, or the request is refused
\* ("Invalid public key length", "Invalid public key").
DeserializeHexToPublicKey(bytes) ==
    IF bytes \in Keys THEN [ ok |-> TRUE, key |-> bytes ] ELSE [ ok |-> FALSE ]

\* Deserialize for StealthMetadata: the derived Helper reads an object with
\* the members ephemeral_public_key and view_tag, or an array of the two
\* values in this order; the first must be the base64 text of the SEC1 bytes
\* of a curve point, the second a u8.
DeserializeStealthMetadata(v) ==
    /\ v[1] \in { "obj", "arr" }
    /\ Len(v) = 3
    /\ v[2] \in Keys
    /\ v[3] \in 0..255

\* The derived Deserialize of TransactionRequest on the members m it was
\* given: the public key must be read by deserialize_hex_to_public_key,
\* stealth_metadata is an Option (null is None; any other value must be read
\* as StealthMetadata). The result holds the fields the server reads.
VisitMembers(m) ==
    IF ~DeserializeHexToPublicKey(m.public_key).ok THEN [ ok |-> FALSE ]
    ELSE IF /\ "stealth_metadata" \in DOMAIN m
            /\ m.stealth_metadata # JsonNull
            /\ ~DeserializeStealthMetadata(m.stealth_metadata)
    THEN [ ok |-> FALSE ]
    ELSE [ ok |-> TRUE, request |-> [ f \in TransactionRequestFields |-> m[f] ] ]

\* serde_json::from_value::<TransactionRequest>. Of a JSON object (visit_map)
\* every required member must be there and its value must be read by the
\* field's deserializer; the member stealth_metadata may be missing; members
\* the struct does not have are ignored. A JSON array (visit_seq) is read
\* as the fields in the order of the struct and must hold all eight.
FromValue(p) ==
    IF DOMAIN p = { "array" }
    THEN IF Len(p.array) # Len(TransactionRequestOrder) THEN [ ok |-> FALSE ]
         ELSE VisitMembers([ f \in { TransactionRequestOrder[i] :
                                       i \in 1..Len(TransactionRequestOrder) } |->
                               p.array[CHOOSE i \in 1..Len(TransactionRequestOrder) :
                                          TransactionRequestOrder[i] = f] ])
    ELSE IF ~(TransactionRequestFields \subseteq DOMAIN p) THEN [ ok |-> FALSE ]
    ELSE VisitMembers(p)

\* VerifyingKey::from_bytes on the public key of a parsed request: the bytes
\* of the public key of a key pair convert, bytes that encode no curve point
\* do not.
VerifyingKeyFromBytes(bytes) ==
    IF bytes \in Keys THEN [ ok |-> TRUE, key |-> bytes ] ELSE [ ok |-> FALSE ]

\* add_transaction as process_single_transaction calls it, with the converted
\* key and six arguments, none of them the previous transaction: the
\* admission of the specification for the transaction that follows the head
\* of the sender's self-chain.
AddTransactionRequest(db, from, to, amount, public_key, timestamp, signature) ==
    CHOOSE r \in { LedgerAddTransaction(db, from, to, amount, public_key, timestamp,
                                        head, signature) :
                     head \in { SelfChainHead(db, from) } } : TRUE

\* process_single_transaction reaches the engine: it does for a balance
\* query and for a transfer whose public key converts.
EngineCalled(request) ==
    request[1] # "Transfer" \/ VerifyingKeyFromBytes(request[2].public_key).ok

\* process_single_transaction, called with the lock held: for a transfer the
\* conversion of the public key, which returns "Invalid public key" before
\* the engine is called, then add_transaction with the fields from, to,
\* amount, timestamp and signature of the request and the converted key;
\* for a balance query get_address_balance_and_selfchain_height, of whose
\* pair the balance is answered as decimal text. The result is the engine's
\* and the store is as the engine call leaves it.
ProcessSingleTransaction(db, request) ==
    IF request[1] = "Transfer"
    THEN LET t == request[2]
             public_key == VerifyingKeyFromBytes(t.public_key) IN
         IF ~public_key.ok
         THEN [ ok |-> FALSE, kind |-> "InvalidPublicKey", cause |-> "from_bytes",
                value |-> << >>, db |-> db ]
         ELSE AddTransactionRequest(db, t.from, t.to, t.amount, public_key.key,
                                    t.timestamp, t.signature)
    ELSE LET r == GetAddressBalanceAndSelfchainHeight(db, request[2]) IN
         IF ~r.ok
         THEN [ ok |-> FALSE, kind |-> "GetBalance", cause |-> "get_address_balance",
                value |-> << >>, db |-> r.db ]
         ELSE [ ok |-> TRUE, kind |-> "Ok", cause |-> "",
                value |-> << "dec", r.value[1] >>, db |-> r.db ]

\* A receiver that hands out the newest item of the channel first.
RecvNewest(q) == [ item |-> q[Len(q)], rest |-> SubSeq(q, 1, Len(q) - 1) ]

\* mpsc::Receiver::recv: the oldest item leaves the channel.
Recv(q) == [ item |-> Head(q), rest |-> Tail(q) ]

\* The server when it starts to accept connections: its engine has loaded
\* the manifest { Alice: MaxAmount }.
ServerGenesis ==
    LedgerLoadGenesis(EmptyStore, [ s \in { TextKey(ALICE_ADDRESS) } |-> MaxAmount ],
                      { TextKey(ALICE_ADDRESS) })

InitServer ==
    /\ store = ServerGenesis
    /\ before = store
    /\ pc = "idle"
    /\ call = NoCall
    /\ result = NoResult
    /\ InitRpc

\* An item of an earlier connection, still in the channel when the handlers
\* of the model arrive; nothing in the model waits for its reply.
BacklogItem == [ h |-> 0, request |-> GetBalance(ALICE_ADDRESS) ]

\* The permits of the channel's semaphore that no sender holds: the capacity
\* less the items in the channel and the permits handed to suspended senders
\* that have not yet put their item in.
FreePermits ==
    ChannelCapacity - backlog - Len(queue)
        - Cardinality({ h \in Handlers : hpc[h] = "permitted" })

\* The senders suspended in send without a permit, in the order in which
\* they called send: the wait queue of the semaphore.
Waiters == SelectSeq(sendLog, LAMBDA h : hpc[h] = "sending")

\* A handler whose send never waits for room in the channel.
HandleRpcRequestUnbounded(h) ==
    /\ hpc[h] = "new"
    /\ \E request \in RpcItems(store) :
          queue' = Append(queue, [ h |-> h, request |-> request ])
    /\ sendLog' = Append(sendLog, h)
    /\ hpc' = [ hpc EXCEPT ![h] = "waiting" ]
    /\ UNCHANGED << second, net, engine, backlog, reply, cpc, current, lock, engineLog, params >>

\* handle_rpc_request: the handler task h builds its item and sends it into
\* the channel; the send completes at once when the semaphore has a free
\* permit and otherwise suspends the task at the end of the wait queue. A
\* permit is free only when no sender is suspended: recv hands the permit of
\* the item it takes to the sender that waits longest. After the send the
\* task waits on the oneshot receiver.
HandleRpcRequest(h) ==
    /\ hpc[h] = "new"
    /\ sendLog' = Append(sendLog, h)
    /\ IF FreePermits > 0
       THEN /\ \E request \in RpcItems(store) :
                  queue' = Append(queue, [ h |-> h, request |-> request ])
            /\ hpc' = [ hpc EXCEPT ![h] = "waiting" ]
       ELSE /\ hpc' = [ hpc EXCEPT ![h] = "sending" ]
            /\ UNCHANGED queue
    /\ UNCHANGED << second, net, engine, backlog, reply, cpc, current, lock, engineLog, params >>

\* tx_queue_sender.send(queued_tx).await resumes: the task was handed a
\* permit and puts its item into the channel when it is scheduled. The item a
\* suspended task holds is seen by nobody before it is in the channel, so
\* its request is drawn when it enters the channel.
SendResumes(h) ==
    /\ hpc[h] = "permitted"
    /\ \E request \in RpcItems(store) :
          queue' = Append(queue, [ h |-> h, request |-> request ])
    /\ hpc' = [ hpc EXCEPT ![h] = "waiting" ]
    /\ UNCHANGED << second, net, engine, backlog, reply, cpc, current, lock, sendLog,
                    engineLog, params >>

\* response_receiver.await returns.
ReceiveReply(h) ==
    /\ hpc[h] = "waiting"
    /\ reply[h] # NoResult
    /\ hpc' = [ hpc EXCEPT ![h] = "done" ]
    /\ UNCHANGED << second, net, engine, queue, backlog, reply, cpc, current, lock,
                    sendLog, engineLog, params >>

\* What the socket of a connection holds for the server once the client has
\* closed it: a write fails with a broken pipe.
BrokenPipe == [ status |-> 0, body |-> << "closed" >> ]

\* The client closes its connection while its handler task waits for the
\* reply. The task is detached and does not poll the socket while it waits:
\* it stays where it is, its oneshot receiver alive, and finds the pipe
\* broken when it writes the response. One client of a run closes.
ClientCloses(h) ==
    /\ hpc[h] = "waiting"
    /\ \A g \in Handlers : socket[g].response = NoResponse
    /\ socket' = [ socket EXCEPT ![h].response = BrokenPipe ]
    /\ UNCHANGED << engine, rpc, spc, message, published, second >>

\* process_transaction_queue: queue_receiver.recv().await. The oldest item
\* leaves the channel and its permit goes back to the semaphore, which hands
\* it to the sender at the head of its wait queue when there is one.
ConsumerRecv ==
    /\ cpc = "recv"
    /\ backlog + Len(queue) > 0
    /\ IF backlog > 0
       THEN /\ current' = BacklogItem
            /\ backlog' = backlog - 1
            /\ UNCHANGED queue
       ELSE /\ current' = Recv(queue).item
            /\ queue' = Recv(queue).rest
            /\ UNCHANGED backlog
    /\ hpc' = IF \E h \in Handlers : hpc[h] = "sending"
              THEN [ hpc EXCEPT ![Head(Waiters)] = "permitted" ]
              ELSE hpc
    /\ cpc' = "lock"
    /\ UNCHANGED << second, net, engine, reply, lock, sendLog, engineLog, params >>

\* process_single_transaction: the task is ready to run the engine call
\* without having taken the lock.
ConsumerLockNotTaken ==
    /\ cpc = "lock"
    /\ cpc' = "call"
    /\ UNCHANGED << second, net, engine, queue, backlog, hpc, reply, current, lock,
                    sendLog, engineLog, params >>

\* process_single_transaction: transaction_manager.lock().await
ConsumerLock ==
    /\ cpc = "lock"
    /\ lock = "free"
    /\ lock' = "consumer"
    /\ cpc' = "call"
    /\ UNCHANGED << second, net, engine, queue, backlog, hpc, reply, current, sendLog, engineLog, params >>

\* process_single_transaction after the lock is taken: the match on the
\* request with its engine call, which is not made when the public key of a
\* transfer does not convert; the guard is dropped at the return.
ConsumerEngineCall ==
    /\ cpc = "call"
    /\ cpc' = "reply"
    /\ lock' = "free"
    /\ before' = store
    /\ call' = [ op |-> "process_single_transaction", request |-> current.request ]
    /\ engineLog' = IF current.h \in Handlers /\ EngineCalled(current.request)
                    THEN Append(engineLog, current.h)
                    ELSE engineLog
    /\ \E r \in { ProcessSingleTransaction(store, current.request) } :
          /\ store' = r.db
          /\ result' = [ ok |-> r.ok, kind |-> r.kind, cause |-> r.cause, value |-> r.value ]
    /\ UNCHANGED << net, pc, queue, backlog, hpc, reply, current, sendLog, params >>

\* process_single_transaction: the engine call, then the guard is dropped.
ConsumerCall == ConsumerEngineCall /\ UNCHANGED second

\* The consumer sends every result to the handler that sent the first item.
ConsumerReplyMisrouted ==
    /\ cpc = "reply"
    /\ reply' = [ reply EXCEPT ![sendLog[1]] = result ]
    /\ cpc' = "recv"
    /\ UNCHANGED << second, net, engine, queue, backlog, hpc, current, lock, sendLog, engineLog, params >>

\* The consumer task ends at the first item whose result is an error.
ConsumerReplyStopsOnError ==
    /\ cpc = "reply"
    /\ reply' = [ reply EXCEPT ![current.h] = result ]
    /\ cpc' = IF result.ok THEN "recv" ELSE "stopped"
    /\ UNCHANGED << second, net, engine, queue, backlog, hpc, current, lock, sendLog, engineLog, params >>

\* process_transaction_queue: queued_tx.response_sender.send(result). The
\* handler task holds the receiver until the reply has arrived, whatever its
\* client does, so the send succeeds; the handler of an item of an earlier
\* connection is outside the model. The loop goes on either way.
ConsumerReply ==
    /\ cpc = "reply"
    /\ reply' = IF current.h \in Handlers
                THEN [ reply EXCEPT ![current.h] = result ]
                ELSE reply
    /\ cpc' = "recv"
    /\ UNCHANGED << second, net, engine, queue, backlog, hpc, current, lock, sendLog, engineLog, params >>

NextRpc ==
    \/ \E h \in Handlers : HandleRpcRequest(h)
    \/ \E h \in Handlers : ReceiveReply(h)
    \/ ConsumerRecv
    \/ ConsumerLock
    \/ ConsumerCall
    \/ ConsumerReply

SpecRpc == InitServer /\ [][NextRpc]_vars

\* One step of the consumer task, wherever it is in its loop.
ConsumerStep == ConsumerRecv \/ ConsumerLock \/ ConsumerCall \/ ConsumerReply

\* The consumer is a spawned task of the runtime: whenever it can take a step
\* it is eventually scheduled.
FairSpecRpc == SpecRpc /\ WF_vars(ConsumerStep)

\* The server with clients that may close their connection while they wait.
NextRpcDrop ==
    \/ \E h \in Handlers : HandleRpcRequest(h)
    \/ \E h \in Handlers : ReceiveReply(h)
    \/ \E h \in Handlers : ClientCloses(h)
    \/ ConsumerRecv
    \/ ConsumerLock
    \/ ConsumerCall
    \/ ConsumerReply

SpecRpcDrop == InitServer /\ [][NextRpcDrop]_vars

\* The server at a moment when the channel holds one item less than its
\* capacity; no genesis manifest has been loaded.
InitChannel ==
    /\ store = EmptyStore
    /\ before = EmptyStore
    /\ pc = "idle"
    /\ call = NoCall
    /\ result = NoResult
    /\ queue = << >>
    /\ backlog = ChannelCapacity - 1
    /\ hpc = [ h \in Handlers |-> "new" ]
    /\ reply = [ h \in Handlers |-> NoResult ]
    /\ cpc = "recv"
    /\ current = NoItem
    /\ lock = "free"
    /\ sendLog = << >>
    /\ engineLog = << >>
    /\ params = [ h \in Handlers |-> NoItem.request ]
    /\ InitNet

NextChannel ==
    \/ \E h \in Handlers : HandleRpcRequest(h)
    \/ \E h \in Handlers : SendResumes(h)
    \/ \E h \in Handlers : ReceiveReply(h)
    \/ ConsumerRecv
    \/ ConsumerLock
    \/ ConsumerCall
    \/ ConsumerReply

SpecChannel == InitChannel /\ [][NextChannel]_vars

\* -------------------------------------------- the HTTP connections of rpc.rs
AddressLen == 32

\* Texts a client can send as the params of addressBalance: the 64 hex digits
\* of an address (TextKey), a text that is no hex, and the hex of one byte.
NotHexText == << "str", "zz" >>

ShortHexText == << "str", "00" >>

\* hex::decode: the bytes of a hex text, or an error.
HexDecode(s) ==
    IF s[1] = "txt" THEN [ ok |-> TRUE, len |-> AddressLen ]
    ELSE IF s = ShortHexText THEN [ ok |-> TRUE, len |-> 1 ]
    ELSE [ ok |-> FALSE, len |-> 0 ]

\* Address::from_hex: the error of hex::decode is returned; copy_from_slice
\* into the 32-byte array panics when the decoded length is not 32.
AddressFromHex(s) ==
    LET decoded == HexDecode(s) IN
    IF ~decoded.ok THEN [ kind |-> "Err", address |-> ZERO_ADDRESS ]
    ELSE IF decoded.len # AddressLen THEN [ kind |-> "Panic", address |-> ZERO_ADDRESS ]
    ELSE [ kind |-> "Ok", address |-> FromHex(s) ]

\* The "id" member of a JSON-RPC request: a number, or absent (indexing the
\* value then gives null).
RequestIds == { << "num", 1 >>, JsonNull }

\* A JSON object that lacks members of a TransactionRequest.
IncompleteRequest == [ from |-> ALICE_ADDRESS, to |-> BOB_ADDRESS ]

\* The method and params of the JSON-RPC requests of the model.
RpcCalls(db) ==
    { << "submitTransaction", << "notArray" >> >>,
      << "submitTransaction", << "array" >> >>,
      << "submitTransaction", << "array", IncompleteRequest >> >> } \cup
    { << "submitTransaction", << "array", req >> >> :
        req \in TransferRequests(db) \cup StealthRequests(db) \cup ArrayRequests(db) } \cup
    { << "addressBalance", << "notStr" >> >>,
      << "addressBalance", NotHexText >>,
      << "addressBalance", ShortHexText >>,
      << "addressBalance", TextKey(ALICE_ADDRESS) >> } \cup
    { << "unknownMethod", JsonNull >>, << "missing", JsonNull >> }

\* What a client can write to the socket: bytes without the blank line that
\* ends the headers, a body that is no JSON, and a JSON-RPC request. The
\* requests that carry a transaction request have a number as id; the others
\* come with a number and with null.
HttpRequests(db) ==
    { << "noSeparator" >>, << "body", "garbage" >> } \cup
    { << "body", "json", << "num", 1 >>, c[1], c[2] >> : c \in RpcCalls(db) } \cup
    { << "body", "json", id, c[1], c[2] >> : id \in RequestIds, c \in RpcCalls(EmptyStore) }

\* handle_rpc_request up to the send: the error it returns, the panic it
\* raises, or the item it puts into the channel. The params of
\* submitTransaction must be an array that is not empty and whose first
\* element serde_json::from_value reads as a TransactionRequest.
ParseRpcRequest(method, p) ==
    IF method = "submitTransaction"
    THEN IF p[1] # "array" THEN [ kind |-> "Err", cause |-> "Invalid params - expected array" ]
         ELSE IF Len(p) = 1 THEN [ kind |-> "Err", cause |-> "Empty params array" ]
         ELSE IF ~FromValue(p[2]).ok
         THEN [ kind |-> "Err", cause |-> "serde_json::from_value" ]
         ELSE [ kind |-> "Ok", request |-> Transfer(FromValue(p[2]).request) ]
    ELSE IF method = "addressBalance"
    THEN IF p[1] \notin { "str", "txt" }
         THEN [ kind |-> "Err", cause |-> "Invalid params - expected str" ]
         ELSE LET a == AddressFromHex(p) IN
              IF a.kind = "Ok" THEN [ kind |-> "Ok", request |-> GetBalance(a.address) ]
              ELSE [ kind |-> a.kind, cause |-> "Address::from_hex" ]
    ELSE IF method = "missing" THEN [ kind |-> "Err", cause |-> "Missing method" ]
    ELSE [ kind |-> "Err", cause |-> "Unknown method" ]

\* The three responses with a JSON-RPC body and the bare 400.
HttpOk(value, id) == [ status |-> 200, body |-> << "result", value, id >> ]

HttpInternalError(e, id) == [ status |-> 500, body |-> << "error", -32603, e, id >> ]

HttpParseError == [ status |-> 400, body |-> << "error", -32700, "Parse error", JsonNull >> ]

HttpBadRequest == [ status |-> 400, body |-> << >> ]

\* The task spawned for a connection: it reads the request, finds the body
\* and parses it, and calls handle_rpc_request, which returns an error, panics
\* or sends its item into the channel and waits for the reply. A request
\* that gets no further is answered here.
ServeConnection(h) ==
    /\ hpc[h] = "new"
    /\ \E raw \in HttpRequests(store) :
        LET parsed == IF raw[1] = "body" /\ raw[2] = "json"
                      THEN ParseRpcRequest(raw[4], raw[5])
                      ELSE [ kind |-> "NoJson", cause |-> "" ]
            response == IF raw[1] = "noSeparator" THEN HttpBadRequest
                        ELSE IF raw[2] # "json" THEN HttpParseError
                        ELSE IF parsed.kind = "Err" THEN HttpInternalError(parsed.cause, raw[3])
                        ELSE NoResponse
        IN  /\ socket' = [ socket EXCEPT ![h] = [ request |-> raw, response |-> response ] ]
            /\ IF parsed.kind = "Ok"
               THEN /\ sendLog' = Append(sendLog, h)
                    /\ IF FreePermits > 0
                       THEN /\ queue' = Append(queue, [ h |-> h, request |-> parsed.request ])
                            /\ hpc' = [ hpc EXCEPT ![h] = "waiting" ]
                       ELSE /\ hpc' = [ hpc EXCEPT ![h] = "sending" ]
                            /\ UNCHANGED queue
               ELSE /\ hpc' = [ hpc EXCEPT ![h] = IF parsed.kind = "Panic" THEN "panicked"
                                                   ELSE "done" ]
                    /\ UNCHANGED << queue, sendLog >>
    /\ UNCHANGED << engine, backlog, reply, cpc, current, lock, engineLog, params,
                    spc, message, published, second >>

\* response_receiver.await returns, handle_rpc_request returns the result and
\* the connection task writes the response: 200 for Ok, 500 for Err.
WriteResponse(h) ==
    /\ hpc[h] = "waiting"
    /\ reply[h] # NoResult
    /\ socket' = [ socket EXCEPT ![h].response =
                     IF reply[h].ok THEN HttpOk(reply[h].value, socket[h].request[3])
                     ELSE HttpInternalError(reply[h].kind, socket[h].request[3]) ]
    /\ hpc' = [ hpc EXCEPT ![h] = "done" ]
    /\ UNCHANGED << engine, queue, backlog, reply, cpc, current, lock, sendLog, engineLog,
                    params, spc, message, published, second >>

NextHttp ==
    \/ \E h \in Handlers : ServeConnection(h)
    \/ \E h \in Handlers : WriteResponse(h)
    \/ ConsumerRecv
    \/ ConsumerLock
    \/ ConsumerCall
    \/ ConsumerReply

SpecHttp == InitServer /\ [][NextHttp]_vars

\* ------------------------------------------------ the RPC handler of main.rs
\* SHA-256 of the JSON text of the params: the digest of a text that is the
\* preimage of no transaction id.
JsonKey(p) == RawKey(<< "json", p >>)

\* bincode of the JSON value of the params.
SerializeJson(p) == << "json", p >>

\* handle_request: the handler task h clones the params of its request and
\* spawns the thread that stores them. The requests are those their senders
\* built when the node started.
HandleRequest(h) ==
    /\ hpc[h] = "new"
    /\ \E req \in TransferRequests(ServerGenesis) :
          params' = [ params EXCEPT ![h] = req ]
    /\ hpc' = [ hpc EXCEPT ![h] = "spawned" ]
    /\ UNCHANGED << second, net, engine, queue, backlog, reply, cpc, current, lock, sendLog, engineLog >>

\* The spawned thread: transaction_manager_clone.lock().await
ThreadLock(h) ==
    /\ hpc[h] = "spawned"
    /\ lock = "free"
    /\ lock' = "thread"
    /\ hpc' = [ hpc EXCEPT ![h] = "thread_put" ]
    /\ UNCHANGED << second, net, engine, queue, backlog, reply, cpc, current, sendLog, engineLog, params >>

\* The spawned thread: begin_rw_txn, put, commit; the guard is dropped, the
\* result is sent and the handler's rx.await returns.
ThreadPut(h) ==
    /\ hpc[h] = "thread_put"
    /\ store' = Put(store, JsonKey(params[h]), SerializeJson(params[h]))
    /\ before' = store
    /\ call' = [ op |-> "put", request |-> params[h] ]
    /\ result' = [ ok |-> TRUE, kind |-> "Ok", cause |-> "", value |-> << >> ]
    /\ lock' = "free"
    /\ hpc' = [ hpc EXCEPT ![h] = "joined" ]
    /\ UNCHANGED << second, net, pc, queue, backlog, reply, cpc, current, sendLog, engineLog, params >>

\* What handle_request returns when serde_json::from_value does not read
\* the params as a TransactionRequest.
ParseFailure ==
    [ ok |-> FALSE, kind |-> "ParseRequest", cause |-> "serde_json::from_value",
      value |-> << >> ]

\* handle_request after rx.await: serde_json::from_value reads the params
\* as a TransactionRequest, or handle_request returns "Failed to parse
\* transaction request" and never asks for the lock; then
\* transaction_manager.lock().await
HandlerLock(h) ==
    /\ hpc[h] = "joined"
    /\ IF FromValue(params[h]).ok
       THEN /\ lock = "free"
            /\ lock' = "handler"
            /\ hpc' = [ hpc EXCEPT ![h] = "add_transaction" ]
            /\ UNCHANGED reply
       ELSE /\ reply' = [ reply EXCEPT ![h] = ParseFailure ]
            /\ hpc' = [ hpc EXCEPT ![h] = "done" ]
            /\ UNCHANGED lock
    /\ UNCHANGED << second, net, engine, queue, backlog, cpc, current, sendLog, engineLog, params >>

\* add_transaction as handle_request calls it: from, to, amount, the
\* converted key, timestamp, the value the call names tx_request.id and the
\* signature. It is not the add_transaction of transaction_manager.rs, whose
\* last two parameters are the signature and the previous transaction; it
\* is the admission of the specification, add_transaction(from, to, amount,
\* pk, timestamp, previous_transaction_id, signature).
AddTransactionWithId(db, from, to, amount, public_key, timestamp, id, signature) ==
    LedgerAddTransaction(db, from, to, amount, public_key, timestamp, id, signature)

\* handle_request from the key conversion on, for the parsed request t and
\* the value id of tx_request.id: VerifyingKey::from_bytes returns "Invalid
\* public key" before the engine is called.
HandleRequestCall(db, t, id) ==
    IF ~VerifyingKeyFromBytes(t.public_key).ok
    THEN [ ok |-> FALSE, kind |-> "InvalidPublicKey", cause |-> "from_bytes",
           value |-> << >>, db |-> db ]
    ELSE AddTransactionWithId(db, t.from, t.to, t.amount,
                              VerifyingKeyFromBytes(t.public_key).key,
                              t.timestamp, id, t.signature)

\* handle_request with the lock held: VerifyingKey::from_bytes and
\* add_transaction(...); the guard is dropped and the result is the
\* handler's answer. TransactionRequest has no member id: the value the
\* call hands over as tx_request.id is not fixed by the request and is any
\* id a caller can name.
HandlerAddTransaction(h) ==
    /\ hpc[h] = "add_transaction"
    /\ \E id \in PrevChoices(store) :
       \E r \in { HandleRequestCall(store, FromValue(params[h]).request, id) } :
          /\ store' = r.db
          /\ result' = [ ok |-> r.ok, kind |-> r.kind, cause |-> r.cause, value |-> r.value ]
          /\ reply' = [ reply EXCEPT ![h] =
                          [ ok |-> r.ok, kind |-> r.kind, cause |-> r.cause, value |-> r.value ] ]
    /\ before' = store
    /\ call' = [ op |-> "handle_request", request |-> params[h] ]
    /\ lock' = "free"
    /\ hpc' = [ hpc EXCEPT ![h] = "done" ]
    /\ UNCHANGED << second, net, pc, queue, backlog, cpc, current, sendLog, engineLog, params >>

NextMain ==
    \/ \E h \in Handlers : HandleRequest(h)
    \/ \E h \in Handlers : ThreadLock(h)
    \/ \E h \in Handlers : ThreadPut(h)
    \/ \E h \in Handlers : HandlerLock(h)
    \/ \E h \in Handlers : HandlerAddTransaction(h)

SpecMain == InitServer /\ [][NextMain]_vars

\* ---------------------------------------------- the swarm task of main.rs
\* The data of the Floodsub messages a peer can send on the topic: bytes that
\* are no JSON text, a JSON request naming a method the node does not have,
\* and a submitTransaction request.
GossipData(db) ==
    { << "garbage" >>, << "json", "unknownMethod" >> } \cup
    { << "json", "submitTransaction", req >> : req \in TransferRequests(db) }

\* handle_swarm_events: select_next_some() yields a Floodsub message. Data
\* that is no JSON is ignored; a JSON request is handed to handle_request,
\* which fails on an unknown method (the error is logged) and, for
\* submitTransaction, spawns the thread that stores the params. The requests
\* are those their senders built when the node started.
HandleSwarmEvents ==
    /\ spc = "select"
    /\ \E data \in GossipData(ServerGenesis) :
        /\ message' = data
        /\ spc' = IF data[1] = "json" /\ data[2] = "submitTransaction"
                  THEN "spawned" ELSE "select"
    /\ UNCHANGED << engine, rpc, socket, published, second >>

\* The thread spawned by handle_request for the swarm task: lock().await
SwarmThreadLock ==
    /\ spc = "spawned"
    /\ lock = "free"
    /\ lock' = "thread"
    /\ spc' = "thread_put"
    /\ UNCHANGED << engine, queue, backlog, hpc, reply, cpc, current, sendLog, engineLog,
                    params, socket, message, published, second >>

\* The thread spawned by handle_request for the swarm task: begin_rw_txn, put,
\* commit; the guard is dropped and rx.await returns.
SwarmThreadPut ==
    /\ spc = "thread_put"
    /\ store' = Put(store, JsonKey(message[3]), SerializeJson(message[3]))
    /\ before' = store
    /\ call' = [ op |-> "put", request |-> message[3] ]
    /\ result' = [ ok |-> TRUE, kind |-> "Ok", cause |-> "", value |-> << >> ]
    /\ lock' = "free"
    /\ spc' = "joined"
    /\ UNCHANGED << pc, queue, backlog, hpc, reply, cpc, current, sendLog, engineLog,
                    params, socket, message, published, second >>

\* handle_request called by the swarm task, after rx.await:
\* serde_json::from_value reads the params as a TransactionRequest, or
\* handle_request returns its error, which handle_swarm_events logs before
\* it selects the next event; then transaction_manager.lock().await
SwarmHandlerLock ==
    /\ spc = "joined"
    /\ IF FromValue(message[3]).ok
       THEN /\ lock = "free"
            /\ lock' = "handler"
            /\ spc' = "add_transaction"
       ELSE /\ spc' = "select"
            /\ UNCHANGED lock
    /\ UNCHANGED << engine, queue, backlog, hpc, reply, cpc, current, sendLog, engineLog,
                    params, socket, message, published, second >>

\* handle_request called by the swarm task, with the lock held:
\* VerifyingKey::from_bytes and add_transaction as in HandlerAddTransaction,
\* the guard is dropped; handle_swarm_events publishes the response when the
\* result is Ok and logs the error otherwise, then selects the next event.
SwarmAddTransaction ==
    /\ spc = "add_transaction"
    /\ \E id \in PrevChoices(store) :
       \E r \in { HandleRequestCall(store, FromValue(message[3]).request, id) } :
          /\ store' = r.db
          /\ result' = [ ok |-> r.ok, kind |-> r.kind, cause |-> r.cause, value |-> r.value ]
          /\ published' = IF r.ok THEN Append(published, << "result", r.value >>)
                          ELSE published
    /\ before' = store
    /\ call' = [ op |-> "handle_request", request |-> message[3] ]
    /\ lock' = "free"
    /\ spc' = "select"
    /\ UNCHANGED << pc, queue, backlog, hpc, reply, cpc, current, sendLog, engineLog,
                    params, socket, message, second >>

\* The node binary: the swarm task next to the handler tasks of the HTTP
\* connections.
NextSwarm ==
    \/ HandleSwarmEvents
    \/ SwarmThreadLock
    \/ SwarmThreadPut
    \/ SwarmHandlerLock
    \/ SwarmAddTransaction
    \/ \E h \in Handlers : HandleRequest(h)
    \/ \E h \in Handlers : ThreadLock(h)
    \/ \E h \in Handlers : ThreadPut(h)
    \/ \E h \in Handlers : HandlerLock(h)
    \/ \E h \in Handlers : HandlerAddTransaction(h)

SpecSwarm == InitServer /\ [][NextSwarm]_vars

\* -------------------------------------------------------- the list of ids
HashLen == 32

\* The length in bytes of a key: an id and the SHA-256 digest of a JSON text
\* are 32 bytes; the hex text of an address is two characters a byte and a
\* height adds ":" and its digits.
KeyLen(k) ==
    IF k[1] = "txt" THEN 2 * AddressLen + (IF k[3] >= 0 THEN 2 ELSE 0)
    ELSE HashLen

\* get_all_transaction_ids: the cursor visits every key; copy_from_slice
\* into [0u8; 32] panics on a key of any other length.
GetAllTransactionIds(db) ==
    IF \E k \in DOMAIN db : KeyLen(k) # HashLen
    THEN [ ok |-> FALSE, kind |-> "Panic", cause |-> "copy_from_slice", value |-> { } ]
    ELSE [ ok |-> TRUE, kind |-> "Ok", cause |-> "", value |-> { k[2] : k \in DOMAIN db } ]

ListIds ==
    /\ pc = "idle"
    /\ call' = [ op |-> "get_all_transaction_ids" ]
    /\ result' = GetAllTransactionIds(store)
    /\ before' = store
    /\ pc' = "returned"
    /\ UNCHANGED << store, rpc, net, second >>

NextList == LoadGenesis \/ SubmitTransaction \/ ListIds \/ Return

SpecList == Init /\ [][NextList]_vars

\* ------------------------------------- balance queries between transfers
\* The items clients send to the server: those of RpcItems at its start and
\* those of RpcItems once Alice's transfer has been admitted.
MixedItems ==
    RpcItems(ServerGenesis) \cup
    UNION { RpcItems(ProcessSingleTransaction(ServerGenesis, item).db) :
              item \in RpcItems(ServerGenesis) }

\* The channel contents of the model: up to MaxRequests items, transfers
\* and balance queries in any order, item i sent by handler i.
MixedQueues ==
    UNION { { [ i \in 1..n |-> [ h |-> i, request |-> f[i] ] ] :
                f \in [ 1..n -> MixedItems ] } :
            n \in 0..MaxRequests }

InitInsert ==
    /\ store = ServerGenesis
    /\ before = ServerGenesis
    /\ pc = "idle"
    /\ call = NoCall
    /\ result = NoResult
    /\ queue \in MixedQueues
    /\ backlog = 0
    /\ hpc = [ h \in Handlers |-> IF h <= Len(queue) THEN "waiting" ELSE "new" ]
    /\ reply = [ h \in Handlers |-> NoResult ]
    /\ cpc = "recv"
    /\ current = NoItem
    /\ lock = "free"
    /\ sendLog = [ i \in 1..Len(queue) |-> i ]
    /\ engineLog = << >>
    /\ params = [ h \in Handlers |-> NoItem.request ]
    /\ socket = [ h \in Handlers |-> [ request |-> NoRequest, response |-> NoResponse ] ]
    /\ spc = "select"
    /\ message = NoMessage
    /\ published = << >>
    /\ replica = ServerGenesis
    /\ replicaResult = NoResult

\* The engine call of the consumer for the item it has taken from the
\* channel. A second engine is handed the same channel with the balance
\* queries taken out: it processes the transfers only.
ConsumeItem ==
    /\ ConsumerEngineCall
    /\ LET rr == ProcessSingleTransaction(replica, current.request) IN
          IF current.request[1] = "Transfer"
          THEN /\ replica' = rr.db
               /\ replicaResult' = [ ok |-> rr.ok, kind |-> rr.kind, cause |-> rr.cause,
                                     value |-> rr.value ]
          ELSE UNCHANGED << replica, replicaResult >>

\* The consumer loop on the channel contents of Init, the handlers waiting
\* for their replies.
NextInsert ==
    \/ \E h \in Handlers : ReceiveReply(h)
    \/ ConsumerRecv
    \/ ConsumerLock
    \/ ConsumeItem
    \/ ConsumerReply

SpecInsert == InitInsert /\ [][NextInsert]_vars

\* ------------------------------------------- the peer-to-peer node (p2p/node.rs)
\* The nodes of p2p/node.rs are kept in the variables declared above:
\*   store[n]      known_peers of node n: PeerId -> Multiaddr
\*   before        known_peers of every node before the operation made last
\*   call, result  the operation made last and what it returned; the value
\*                 of the result is the set of addresses the operation has
\*                 handed to swarm.dial
\*   socket[n][p]  the established connections of n's swarm to peer p
\*   spc[n]        "absent", "new" (constructed), "running" (in the loop of
\*                 start) or "stopped" (start has returned)
\* The swarm of libp2p is the environment: it yields the events, its
\* connection table changes only while start polls it, and the outcome of a
\* publish is its own. Init fixes the network: the nodes that run the code,
\* and the peer ids there are (the nodes, and peers that are not modelled).
Nodes == DOMAIN spc

PeerIds == UNION { DOMAIN socket[n] : n \in Nodes }

Multiaddrs == {"/a", "/b"}

\* A string that parses neither as PeerId nor as Multiaddr.
Unparsable == "?"

PublishOutcomes == {"Ok", "InsufficientPeers", "Error"}

\* The (PeerId, Multiaddr) string pairs of a peer list.
GossipEntries(peers) ==
    (peers \X Multiaddrs) \cup { << Unparsable, "/a" >>, << "n2", Unparsable >> }

PeerLists(peers) == UNION { [ 1..n -> GossipEntries(peers) ] : n \in 0..MaxPeerList }

\* serde_json::to_string of a GossipMessage, and the payloads a message on the
\* topic can carry: a GossipMessage, JSON of another shape, bytes that are
\* not JSON.
SerdeJsonToString(msg) == << "json", "GossipMessage", msg >>

GossipPayloads(peers) ==
    { SerdeJsonToString([ sender |-> "n2", known_peers |-> l ]) : l \in PeerLists(peers) }
        \cup { << "json", "other" >>, << "bytes" >> }

SerdeJsonFromSlice(data) ==
    IF data[1] = "json" /\ data[2] = "GossipMessage"
    THEN [ ok |-> TRUE, value |-> data[3] ]
    ELSE [ ok |-> FALSE, value |-> << >> ]

Parses(s) == s # Unparsable

IsConnected(connections, peer_id) == connections[peer_id] > 0

DiscoverPeerAnyId(self, known, connections, peer_id, addr) ==
    IF peer_id \in DOMAIN known /\ known[peer_id] = addr
    THEN [ value |-> FALSE, known_peers |-> known, dialed |-> {} ]
    ELSE [ value |-> TRUE, known_peers |-> Put(known, peer_id, addr),
           dialed |-> IF IsConnected(connections, peer_id) THEN {} ELSE {addr} ]

DiscoverPeerDialOnly(self, known, connections, peer_id, addr) ==
    IF peer_id = self
    THEN [ value |-> FALSE, known_peers |-> known, dialed |-> {} ]
    ELSE [ value |-> TRUE, known_peers |-> known,
           dialed |-> IF IsConnected(connections, peer_id) THEN {} ELSE {addr} ]

DiscoverPeer(self, known, connections, peer_id, addr) ==
    IF peer_id = self
    THEN [ value |-> FALSE, known_peers |-> known, dialed |-> {} ]
    ELSE IF peer_id \in DOMAIN known /\ known[peer_id] = addr
    THEN [ value |-> FALSE, known_peers |-> known, dialed |-> {} ]
    ELSE [ value |-> TRUE, known_peers |-> Put(known, peer_id, addr),
           dialed |-> IF IsConnected(connections, peer_id) THEN {} ELSE {addr} ]

RemovePeerKeeps(known, peer_id) == known

RemovePeer(known, peer_id) ==
    [ p \in DOMAIN known \ {peer_id} |-> known[p] ]

\* broadcast_known_peers: nothing is published for an empty map, and
\* InsufficientPeers is no error.
BroadcastKnownPeers(known, outcome) ==
    DOMAIN known = {} \/ outcome \in {"Ok", "InsufficientPeers"}

ConnectToPeers(addrs) == { addrs[i] : i \in DOMAIN addrs }

\* The loop over gossip.known_peers: discover_peer for every pair whose two
\* strings parse, in the order of the list.
RECURSIVE DiscoverEach(_, _, _, _, _, _, _)
DiscoverEach(self, known, connections, list, i, new_peers, dialed) ==
    IF i > Len(list)
    THEN [ known_peers |-> known, new_peers |-> new_peers, dialed |-> dialed ]
    ELSE IF Parses(list[i][1]) /\ Parses(list[i][2])
    THEN LET d == DiscoverPeer(self, known, connections, list[i][1], list[i][2])
         IN  DiscoverEach(self, d.known_peers, connections, list, i + 1,
                          new_peers \/ d.value, dialed \cup d.dialed)
    ELSE DiscoverEach(self, known, connections, list, i + 1, new_peers, dialed)

OkOf(dialed) == [ ok |-> TRUE, kind |-> "Ok", cause |-> "", value |-> dialed ]

ErrOf(cause, dialed) == [ ok |-> FALSE, kind |-> "Err", cause |-> cause, value |-> dialed ]

InitNetwork(nodes, peers) ==
    /\ store = [ n \in nodes |-> EmptyStore ]
    /\ before = [ n \in nodes |-> EmptyStore ]
    /\ pc = "idle"
    /\ call = NoCall
    /\ result = NoResult
    /\ queue = << >>
    /\ backlog = 0
    /\ hpc = [ h \in Handlers |-> "new" ]
    /\ reply = [ h \in Handlers |-> NoResult ]
    /\ cpc = "recv"
    /\ current = NoItem
    /\ lock = "free"
    /\ sendLog = << >>
    /\ engineLog = << >>
    /\ params = [ h \in Handlers |-> NoItem.request ]
    /\ socket = [ n \in nodes |-> [ p \in peers |-> 0 ] ]
    /\ spc = [ n \in nodes |-> "absent" ]
    /\ message = NoMessage
    /\ published = << >>
    /\ replica = EmptyStore
    /\ replicaResult = NoResult

\* One node among two peers that are not modelled.
InitP2p == InitNetwork({"n1"}, {"n1", "n2", "n3"})

\* Two nodes that are each other's only peer.
InitPair == InitNetwork({"n1", "n2"}, {"n1", "n2"})

\* Node::new: an empty known_peers, and connect_to_peers over the bootstrap
\* peers of the configuration.
NewNode(n) ==
    /\ spc[n] = "absent"
    /\ \E addrs \in UNION { [ 1..k -> Multiaddrs ] : k \in 0..MaxBootstrap } :
        /\ call' = [ op |-> "new", node |-> n, bootstrap_peers |-> addrs ]
        /\ result' = OkOf(ConnectToPeers(addrs))
    /\ spc' = [ spc EXCEPT ![n] = "new" ]
    /\ before' = store
    /\ UNCHANGED << store, pc, socket, rpc, message, published, second >>

\* start up to its loop: listen_on fails for an address no transport of the
\* swarm supports.
Start(n) ==
    /\ spc[n] = "new"
    /\ \E listens \in BOOLEAN :
        /\ spc' = [ spc EXCEPT ![n] = IF listens THEN "running" ELSE "stopped" ]
        /\ result' = IF listens THEN NoResult ELSE ErrOf("listen_on", {})
    /\ call' = [ op |-> "start", node |-> n ]
    /\ before' = store
    /\ UNCHANGED << store, pc, socket, rpc, message, published, second >>

\* The gossip timer has ticked: an error of the broadcast is logged.
GossipTick(n) ==
    /\ spc[n] = "running"
    /\ \E ok \in { BroadcastKnownPeers(store[n], outcome) : outcome \in PublishOutcomes } :
        result' = IF ok THEN OkOf({}) ELSE ErrOf("publish", {})
    /\ call' = [ op |-> "broadcast_known_peers", node |-> n ]
    /\ before' = store
    /\ UNCHANGED << store, pc, socket, spc, rpc, message, published, second >>

\* What the loop of start does with the result of handle_swarm_event: the
\* `?` returns the error from start.
AfterEvent(n, ok) == [ spc EXCEPT ![n] = IF ok THEN "running" ELSE "stopped" ]

ConnectionEstablished(n) ==
    /\ spc[n] = "running"
    /\ \E peer_id \in PeerIds \ {n}, addr \in Multiaddrs :
        /\ socket[n][peer_id] < MaxConnections
        /\ LET connections == [ socket[n] EXCEPT ![peer_id] = @ + 1 ]
               d == DiscoverPeer(n, store[n], connections, peer_id, addr)
           IN  \E ok \in { ~d.value \/ BroadcastKnownPeers(d.known_peers, outcome) :
                               outcome \in PublishOutcomes } :
                 /\ socket' = [ socket EXCEPT ![n] = connections ]
                 /\ store' = [ store EXCEPT ![n] = d.known_peers ]
                 /\ result' = IF ok THEN OkOf(d.dialed) ELSE ErrOf("publish", d.dialed)
                 /\ spc' = AfterEvent(n, ok)
        /\ call' = [ op |-> "handle_swarm_event", node |-> n,
                     event |-> "ConnectionEstablished", peer |-> peer_id, addr |-> addr ]
    /\ before' = store
    /\ UNCHANGED << pc, rpc, message, published, second >>

ConnectionClosed(n) ==
    /\ spc[n] = "running"
    /\ \E peer_id \in PeerIds \ {n} :
        /\ socket[n][peer_id] > 0
        /\ LET connections == [ socket[n] EXCEPT ![peer_id] = @ - 1 ]
           IN  /\ socket' = [ socket EXCEPT ![n] = connections ]
               /\ store' = [ store EXCEPT ![n] =
                               IF IsConnected(connections, peer_id)
                               THEN @ ELSE RemovePeer(@, peer_id) ]
        /\ call' = [ op |-> "handle_swarm_event", node |-> n,
                     event |-> "ConnectionClosed", peer |-> peer_id ]
    /\ result' = OkOf({})
    /\ before' = store
    /\ UNCHANGED << pc, spc, rpc, message, published, second >>

\* A ping event: a success is logged; on a failure the peer is removed
\* unless the swarm still holds a connection to it.
PingEvent(n) ==
    /\ spc[n] = "running"
    /\ \E peer_id \in PeerIds \ {n}, success \in BOOLEAN :
        /\ store' = [ store EXCEPT ![n] =
                        IF success \/ IsConnected(socket[n], peer_id)
                        THEN @ ELSE RemovePeer(@, peer_id) ]
        /\ call' = [ op |-> "handle_swarm_event", node |-> n,
                     event |-> IF success THEN "PingSuccess" ELSE "PingFailure",
                     peer |-> peer_id ]
    /\ result' = OkOf({})
    /\ before' = store
    /\ UNCHANGED << pc, socket, spc, rpc, message, published, second >>

\* A message on the topic, from a peer the node holds a connection to.
GossipReceived(n) ==
    /\ spc[n] = "running"
    /\ \E p \in PeerIds : IsConnected(socket[n], p)
    /\ \E data \in GossipPayloads(PeerIds) :
        LET gossip == SerdeJsonFromSlice(data)
        IN  /\ call' = [ op |-> "handle_swarm_event", node |-> n,
                         event |-> "Message", data |-> data ]
            /\ IF ~gossip.ok
               THEN /\ result' = ErrOf("serde_json", {})
                    /\ spc' = AfterEvent(n, FALSE)
                    /\ UNCHANGED store
               ELSE LET e == DiscoverEach(n, store[n], socket[n],
                                          gossip.value.known_peers, 1, FALSE, {})
                    IN  \E ok \in { ~e.new_peers \/ BroadcastKnownPeers(e.known_peers, outcome) :
                                        outcome \in PublishOutcomes } :
                          /\ store' = [ store EXCEPT ![n] = e.known_peers ]
                          /\ result' = IF ok THEN OkOf(e.dialed) ELSE ErrOf("publish", e.dialed)
                          /\ spc' = AfterEvent(n, ok)
    /\ before' = store
    /\ UNCHANGED << pc, socket, rpc, message, published, second >>

NextP2p ==
    \/ \E n \in Nodes : NewNode(n)
    \/ \E n \in Nodes : Start(n)
    \/ \E n \in Nodes : GossipTick(n)
    \/ \E n \in Nodes : ConnectionEstablished(n)
    \/ \E n \in Nodes : ConnectionClosed(n)
    \/ \E n \in Nodes : PingEvent(n)
    \/ \E n \in Nodes : GossipReceived(n)

SpecP2p == InitP2p /\ [][NextP2p]_vars

SpecPair == InitPair /\ [][NextP2p]_vars

\* ------------------------------------------------------------------ claims
Returned(op) == pc = "returned" /\ call.op = op

CallTx ==
    Tx(call.from, call.to, call.amount, call.timestamp, call.previous_transaction_id)

CallId == CalculateId(CallTx)

SignatureVerifies == Verify(call.public_key, CallId, call.signature)

\* The genesis record of address a in db, when the manifest named a.
HasGenesis(db, a) == TextKey(a) \in DOMAIN db

GenesisAmountOf(db, a) == DeserializeRecord(db[TextKey(a)]).rec.transaction.amount[2]

GenesisIdOf(db, a) == CalculateId(DeserializeRecord(db[TextKey(a)]).rec.transaction)

\* The public funds of address a in db: the Public amounts of the stored
\* transactions that credit a, less those of the ones that debit a.
RECURSIVE PublicFunds(_, _, _)
PublicFunds(db, a, keys) ==
    IF keys = {} THEN 0
    ELSE LET k == CHOOSE j \in keys : TRUE
             tx == db[k][1]
             n == IF IsPublic(tx.amount) THEN tx.amount[2] ELSE 0
         IN  (IF tx.to = a THEN n ELSE 0) - (IF tx.from = a THEN n ELSE 0)
                + PublicFunds(db, a, keys \ {k})

PublicBalance(db, a) == PublicFunds(db, a, DOMAIN db)

\* The head of the sender's chain: the last transaction the store links to
\* the sender. While nothing has been admitted this is the sender's genesis.
OnlyGenesis(db) == \A k \in DOMAIN db : k[1] = "txt"

\* A correctly signed public transfer of n <= x from A to another address B,
\* naming the head of A's chain, submitted to a store holding genesis {A: x}.
ValidPublicTransfer ==
    /\ Returned("add_transaction")
    /\ SignatureVerifies
    /\ call.public_key = KeyOf(call.from)
    /\ call.from # call.to
    /\ IsPublic(call.amount)
    /\ call.amount[2] > 0
    /\ OnlyGenesis(before)
    /\ HasGenesis(before, call.from)
    /\ call.amount[2] <= GenesisAmountOf(before, call.from)
    /\ call.previous_transaction_id = GenesisIdOf(before, call.from)

\* C1: a correctly signed public transfer of n <= x from A to B that names the
\* head of A's chain is admitted (add_transaction returns hex(id)); afterwards
\* A's balance has decreased by n, B's has increased by n and both heights
\* have increased by 1.
C1_TransferAdmitted ==
    ValidPublicTransfer =>
        /\ result.ok
        /\ result.value = HexEncode(CallId)
        /\ GetBalanceAndHeight(store, call.from)[1]
              = GetBalanceAndHeight(before, call.from)[1] - call.amount[2]
        /\ GetBalanceAndHeight(store, call.to)[1]
              = GetBalanceAndHeight(before, call.to)[1] + call.amount[2]
        /\ GetBalanceAndHeight(store, call.from)[2]
              = GetBalanceAndHeight(before, call.from)[2] + 1
        /\ GetBalanceAndHeight(store, call.to)[2]
              = GetBalanceAndHeight(before, call.to)[2] + 1

\* C3: after load_genesis on a fresh store, get_balance_and_height returns
\* (x, 1) for every address A of the manifest {A: x} and (0, 0) for every
\* address that is not in the manifest.
C3_GenesisBalances ==
    (Returned("load_genesis") /\ before = EmptyStore) =>
        \A a \in Addr :
            GetBalanceAndHeight(store, a) =
                IF TextKey(a) \in DOMAIN call.balances
                THEN << call.balances[TextKey(a)], 1 >>
                ELSE << 0, 0 >>

\* C4: a correctly signed public transfer of n from an address whose public
\* balance is less than n is rejected with InsufficientBalance and the store
\* is left as it was.
Overdraft ==
    /\ Returned("add_transaction")
    /\ SignatureVerifies
    /\ IsPublic(call.amount)
    /\ call.amount[2] > PublicBalance(before, call.from)

C4_OverdraftRejected ==
    Overdraft => (~result.ok /\ result.kind = "InsufficientBalance" /\ store = before)

C4_Witness ==
    /\ Overdraft
    /\ HasGenesis(before, call.from)
    /\ GenesisAmountOf(before, call.from) > 0
    /\ call.previous_transaction_id = GenesisIdOf(before, call.from)
    /\ call.public_key = KeyOf(call.from)
    /\ result.kind = "InsufficientBalance"

\* C6: a transaction is admitted only if its previous_transaction_id is the
\* id of the last transaction on the sender's chain (the sender's genesis id
\* when the chain holds only genesis); any other previous_transaction_id is
\* rejected with ChainBroken and the store is left as it was.
NamesHead ==
    /\ HasGenesis(before, call.from)
    /\ call.previous_transaction_id = GenesisIdOf(before, call.from)

C6_ChainPosition ==
    (Returned("add_transaction") /\ SignatureVerifies /\ OnlyGenesis(before)) =>
        /\ result.ok => NamesHead
        /\ ~NamesHead => (~result.ok /\ result.kind = "ChainBroken" /\ store = before)

\* C7: when the signature does not verify over calculate_id(transaction)
\* under the supplied public key, add_transaction returns InvalidSignature
\* whatever the chain holds and writes nothing.
C7_InvalidSignature ==
    (Returned("add_transaction") /\ ~SignatureVerifies) =>
        (~result.ok /\ result.kind = "InvalidSignature" /\ store = before)

C7_Witness ==
    /\ Returned("add_transaction")
    /\ ~SignatureVerifies
    /\ result.kind = "InvalidSignature"
    /\ NamesHead
    /\ call.signature[2] = CallId

\* C8: a transaction that names sender A and carries a signature that
\* verifies under the key of another key pair A' is rejected with
\* InvalidSignature and the store is left as it was.
C8_KeyBoundToSender ==
    (Returned("add_transaction") /\ SignatureVerifies
        /\ call.public_key # KeyOf(call.from)) =>
        (~result.ok /\ result.kind = "InvalidSignature" /\ store = before)

\* C9: a confidential transaction whose range proof does not verify is
\* rejected with InvalidRangeProof and nothing is written.
C9_RangeProofChecked ==
    (Returned("add_transaction") /\ SignatureVerifies
        /\ ~IsPublic(call.amount) /\ ~RangeProofVerifies(call.amount[2])) =>
        (~result.ok /\ result.kind = "InvalidRangeProof" /\ store = before)

\* Sequence s is a prefix of sequence t.
IsPrefix(s, t) == Len(s) <= Len(t) /\ \A i \in 1..Len(s) : s[i] = t[i]

\* C10: the consumer calls the engine for the queued items in the order in
\* which they were sent into the channel, one at a time: the engine calls made
\* so far are, in order, the first items and an item is taken from the
\* channel only after the call for the one before it has completed.
C10_FifoAdmission ==
    /\ IsPrefix(engineLog, sendLog)
    /\ cpc \in {"lock", "call"} =>
          (current.h = sendLog[Len(engineLog) + 1])
    /\ cpc \in {"recv", "reply"} =>
          (Len(engineLog) + Len(queue) = Len(sendLog))

C10_Witness ==
    /\ Len(engineLog) >= 2
    /\ engineLog[1] > engineLog[2]
    /\ Len(queue) >= 1

\* C11: at most one engine operation, an admission or a balance read, is
\* executing at any time and it executes while the engine lock is held: the
\* consumer is at the engine call exactly when it holds the lock, and every
\* step that changes the store or makes an engine call is taken with the lock
\* held and releases it.
C11_SingleWriter ==
    /\ []((cpc = "call") <=> (lock = "consumer"))
    /\ [][(store' # store \/ call' # call) =>
              (cpc = "call" /\ lock = "consumer" /\ lock' = "free")]_vars

C11_Witness ==
    /\ cpc = "call"
    /\ lock = "consumer"
    /\ Len(queue) >= 1
    /\ \E h \in Handlers : hpc[h] = "new"

\* C12: every change of the ledger and every engine call caused by an RPC
\* request is a step of the queue consumer; a handler task only enqueues its
\* item and waits for the reply.
C12_OnlyConsumerTouchesLedger ==
    [][(store' # store \/ call' # call) => cpc = "call"]_vars

\* The number of times x occurs in the sequence seq.
Count(seq, x) == Cardinality({ i \in 1..Len(seq) : seq[i] = x })

\* What the engine answers to a request on the store db.
Outcome(db, request) ==
    LET r == ProcessSingleTransaction(db, request) IN
    [ ok |-> r.ok, kind |-> r.kind, cause |-> r.cause, value |-> r.value ]

\* C13: each item accepted into the channel is processed by the engine exactly
\* once, never retried and never skipped, and its outcome is sent exactly once
\* on the reply channel paired with it: a handler that has a reply has had one
\* engine call, the reply the consumer has just sent is the outcome of that
\* item's own request and went to that item's handler, once the channel is
\* drained every item sent has been answered, and a reply never changes.
C13_ExactlyOnce ==
    /\ [](/\ \A h \in Handlers : Count(engineLog, h) <= 1
          /\ \A h \in Handlers : reply[h] # NoResult => Count(engineLog, h) = 1
          /\ (cpc = "recv" /\ current # NoItem) =>
                reply[current.h] = Outcome(before, current.request)
          /\ (cpc = "recv" /\ queue = << >>) =>
                \A h \in Handlers :
                    hpc[h] \in {"waiting", "done"} =>
                        (Count(engineLog, h) = 1 /\ reply[h] # NoResult))
    /\ [][\A h \in Handlers : reply[h] # NoResult => reply'[h] = reply[h]]_vars

C13_Witness ==
    /\ cpc = "recv"
    /\ queue = << >>
    /\ \E g, h, i \in Handlers :
          /\ reply[g].kind = "InvalidSignature"
          /\ reply[h].kind = "InsufficientBalance"
          /\ reply[i].kind = "Ok"
          /\ Count(engineLog, g) = 1
          /\ Count(engineLog, h) = 1
          /\ Count(engineLog, i) = 1

\* A transfer request the ledger rules accept on the store db: of a public
\* amount within the sender's balance, to another address, naming the head
\* of the sender's self-chain as previous transaction and signed by the
\* sender's key over its id.
ValidRpcTransfer(db, request) ==
    /\ request[1] = "Transfer"
    /\ LET t == request[2] IN
          /\ HeadIds(db, t.from) # {}
          /\ t.from # t.to
          /\ IsPublic(t.amount)
          /\ t.amount[2] > 0
          /\ t.amount[2] <= GetBalanceAndHeight(db, t.from)[1]
          /\ t.previous_transaction_id = SelfChainHead(db, t.from)
          /\ t.public_key = KeyOf(t.from)
          /\ Verify(t.public_key,
                    CalculateId(Tx(t.from, t.to, t.amount, t.timestamp,
                                   t.previous_transaction_id)),
                    t.signature)

\* The client of the item the consumer holds has closed its connection.
ClientGone ==
    /\ cpc = "reply"
    /\ current.h \in Handlers
    /\ socket[current.h].response = BrokenPipe

\* C14: when the client has closed its connection after its item was
\* enqueued and before the reply is sent, the item is still processed, its
\* result the engine's answer to it, and, when it is a valid transfer, the
\* transaction is admitted: its id is returned and the amount has moved from
\* the sender to the recipient; the reply that reaches no client is
\* discarded and the consumer goes on with the following items.
C14_DroppedClientStillAdmitted ==
    ClientGone =>
        /\ call.request = current.request
        /\ result = Outcome(before, current.request)
        /\ ENABLED ConsumerReply
        /\ ValidRpcTransfer(before, current.request) =>
              LET t == current.request[2] IN
              /\ result.ok
              /\ result.value = HexEncode(CalculateId(Tx(t.from, t.to, t.amount, t.timestamp,
                                                         t.previous_transaction_id)))
              /\ GetBalanceAndHeight(store, t.from)[1]
                    = GetBalanceAndHeight(before, t.from)[1] - t.amount[2]
              /\ GetBalanceAndHeight(store, t.to)[1]
                    = GetBalanceAndHeight(before, t.to)[1] + t.amount[2]

\* The valid transfer of a client that closed its connection has been
\* admitted while another item waits in the channel.
C14_Witness ==
    /\ ClientGone
    /\ ValidRpcTransfer(before, current.request)
    /\ result.ok
    /\ store # before
    /\ Len(queue) >= 1

\* The number of places where the item of handler h is: in the channel, with
\* the consumer, or among the engine calls made.
Accepted(h) ==
    Cardinality({ i \in 1..Len(queue) : queue[i].h = h })
        + (IF current.h = h /\ cpc \in {"lock", "call"} THEN 1 ELSE 0)
        + Count(engineLog, h)

\* C15: the channel never holds more than ChannelCapacity items; a handler
\* whose send finds the channel full is suspended, its item not yet accepted,
\* for as long as there is no room for it only; once space is freed for it
\* its send can complete; every accepted item is in the channel, with the
\* consumer, or has had its engine call, exactly once.
C15_BoundedChannel ==
    /\ backlog + Len(queue) <= ChannelCapacity
    /\ FreePermits >= 0
    /\ \A h \in Handlers :
          /\ hpc[h] \in {"new", "sending", "permitted"} => Accepted(h) = 0
          /\ hpc[h] \in {"waiting", "done"} => Accepted(h) = 1
          /\ hpc[h] = "sending" => FreePermits = 0
          /\ hpc[h] = "permitted" => ENABLED SendResumes(h)

C15_Witness ==
    /\ backlog + Len(queue) = ChannelCapacity
    /\ Len(queue) >= 2
    /\ queue[2].h = sendLog[2]
    /\ \E h \in Handlers : hpc[h] = "sending"

\* C16: an engine error on one queued item does not stop the consumer and
\* every item queued after it is still processed and answered: whatever
\* results the engine has returned, the consumer is again and again back at
\* recv with the channel drained and every waiting handler answered.
C16_ErrorsDoNotStopConsumer ==
    []<>(/\ cpc = "recv"
         /\ queue = << >>
         /\ \A h \in Handlers : hpc[h] = "waiting" => reply[h] # NoResult)

C16_Witness ==
    /\ Len(engineLog) >= 2
    /\ reply[engineLog[1]] # NoResult
    /\ ~reply[engineLog[1]].ok
    /\ reply[engineLog[2]] # NoResult
    /\ hpc[engineLog[2]] = "done"

\* The heights h at which db holds a record under the key hex(a):h.
ChainHeights(db, a) ==
    { k[3] : k \in { j \in DOMAIN db : j[1] = "txt" /\ j[2] = a /\ j[3] >= 0 } }

\* C18: in every reachable store each record is stored on a self-chain, under
\* a key hex(address):h; the heights of each address are the dense range
\* 0..len-1; and the record at height 0 is a genesis record sent by the zero
\* address.
C18_DenseSelfChains ==
    /\ \A k \in DOMAIN store : k[1] = "txt" /\ k[3] >= 0
    /\ \A a \in Addr :
          /\ ChainHeights(store, a) = 0..(Cardinality(ChainHeights(store, a)) - 1)
          /\ ChainKey(a, 0) \in DOMAIN store =>
                DeserializeRecord(store[ChainKey(a, 0)]).rec.transaction.from = ZERO_ADDRESS

\* C19: the ledger is append-only: whatever operation has just run, every key
\* the store held before it is still there with the value it had.
C19_AppendOnly ==
    \A k \in DOMAIN before : k \in DOMAIN store /\ store[k] = before[k]

\* The transactions whose admission the idempotence of load_genesis is tried
\* against.
AdmittedSamples ==
    { Tx(a, b, Public(1), 1, ZeroHash) : a \in Addr, b \in Addr }

\* The store db after add_transaction has persisted tx.
WithAdmitted(db, tx) == Put(db, RawKey(CalculateId(tx)), SerializeTransaction(tx))

\* C20: load_genesis is idempotent: applying the manifest again to the store
\* it has just been applied to leaves that store as it is, and applying it to
\* a store that also holds an admitted transaction leaves the record of that
\* transaction in place and changes nothing else.
C20_LoadGenesisIdempotent ==
    Returned("load_genesis") =>
        /\ LoadGenesisTransactions(store, call.balances) = store
        /\ \A tx \in AdmittedSamples :
              LoadGenesisTransactions(WithAdmitted(store, tx), call.balances)
                  = WithAdmitted(store, tx)

C20_Witness ==
    /\ Returned("load_genesis")
    /\ \E s \in DOMAIN call.balances : call.balances[s] > 0
    /\ store = before
    /\ store = LoadGenesisTransactions(EmptyStore, call.balances)

\* C21: the gossip layer has no feedback path into the engine: a step of the
\* task that receives the messages of the gossip transport (it moves the
\* task, takes a message or publishes) makes no engine call and writes
\* nothing to the store, and a publish removes or changes no stored record.
C21_NoGossipFeedback ==
    [][ (spc' # spc \/ message' # message \/ published' # published)
            => /\ store' = store
               /\ call' = call ]_vars

\* The request of handler h was a JSON-RPC request.
IsJsonRequest(h) == socket[h].request[1] = "body" /\ socket[h].request[2] = "json"

\* The handling of the JSON-RPC request of handler h failed: handle_rpc_request
\* could not build an item from it, or the engine answered its item with an
\* error.
HandlingFails(h) ==
    LET raw == socket[h].request
        parsed == ParseRpcRequest(raw[4], raw[5]) IN
    \/ parsed.kind # "Ok"
    \/ ~reply[h].ok

\* C22: once the task of a connection has ended, a request whose body is not
\* valid JSON has got HTTP 400 with code -32700 and nothing was enqueued for
\* it, a request whose handling failed has got HTTP 500 with code -32603 and
\* its id, and a request whose handling succeeded has got HTTP 200 with the
\* result and its id.
C22_OutcomeMapping ==
    \A h \in Handlers :
        hpc[h] \in { "done", "panicked" } =>
            LET raw == socket[h].request
                response == socket[h].response IN
            /\ (raw = << "body", "garbage" >>) =>
                  /\ response.status = 400
                  /\ response.body[2] = -32700
                  /\ Count(sendLog, h) = 0
            /\ (IsJsonRequest(h) /\ HandlingFails(h)) =>
                  /\ response.status = 500
                  /\ response.body[2] = -32603
                  /\ response.body[4] = raw[3]
            /\ (IsJsonRequest(h) /\ ~HandlingFails(h)) =>
                  /\ response.status = 200
                  /\ response.body = << "result", reply[h].value, raw[3] >>

ChainRecords(db, a) == { k[3] : k \in { j \in DOMAIN db : j[1] = "txt" /\ j[2] = a /\ j[3] >= 0 } }

ChainTx(db, a, h) == DeserializeRecord(db[ChainKey(a, h)]).rec.transaction

RECURSIVE SumOver(_, _, _, _)
SumOver(db, a, heights, side) ==
    IF heights = {} THEN 0
    ELSE LET h == CHOOSE x \in heights : TRUE
             tx == ChainTx(db, a, h)
             counts == IF side = "credit" THEN tx.to = a ELSE tx.from = a
         IN  (IF counts /\ IsPublic(tx.amount) THEN tx.amount[2] ELSE 0)
             + SumOver(db, a, heights \ {h}, side)

\* C24: get_balance_and_height(address) returns the sum of the Public credits
\* minus the sum of the Public debits of the records on the self-chain of the
\* address, and as next height the number of these records; Confidential
\* records count toward the height and leave the balance as it is.
C24_BalanceAndHeight ==
    Returned("get_balance_and_height") =>
        LET a == call.address IN
        /\ result.value[2] = Cardinality(ChainRecords(store, a))
        /\ result.value[1] = SumOver(store, a, ChainRecords(store, a), "credit")
                             - SumOver(store, a, ChainRecords(store, a), "debit")

C24_Witness ==
    /\ Returned("get_balance_and_height")
    /\ result.value[2] = MaxChain + 1
    /\ result.value[1] # ChainGenesisAmount
    /\ SumOver(store, call.address, ChainRecords(store, call.address), "debit") > 0
    /\ \E h \in ChainRecords(store, call.address) :
          ~IsPublic(ChainTx(store, call.address, h).amount)

\* C25: every value in the store is the encoding of a StoredRecord
\* {transaction, status, signature}, and the bytes add_transaction builds for
\* its put decode, with the decoder the chain walker reads records with, to a
\* record of the transaction with status Confirmed.
C25_StoredRecordEncoding ==
    /\ \A k \in DOMAIN store : DeserializeRecord(store[k]).ok
    /\ Returned("serialize") =>
          LET d == DeserializeRecord(result.value) IN
          /\ d.ok
          /\ d.rec.transaction = call.transaction
          /\ d.rec.status = "Confirmed"

\* C26: calculate_id is a function of from, to, amount, timestamp and
\* previous_transaction_id alone: transactions equal in these fields get the
\* id returned, and a transaction differing in any of them gets another id.
C26_IdOfFields ==
    Returned("calculate_id") =>
        \A tx \in HashTransactions :
            (CalculateId(tx) = result.value) <=> (tx = call.transaction)

\* An id of a Confidential transaction whose first point is the identity,
\* next to a transaction that differs in the ciphertext alone and has a hash
\* input of the same length, and one that differs in the timestamp alone.
C26_Witness ==
    /\ Returned("calculate_id")
    /\ ~IsPublic(call.transaction.amount)
    /\ C1Of(call.transaction.amount[2]) = 0
    /\ \E tx \in HashTransactions :
          /\ ~IsPublic(tx.amount)
          /\ C1Of(tx.amount[2]) # 0
          /\ tx = [ call.transaction EXCEPT !.amount = tx.amount ]
          /\ Len(HashInput(tx)) = Len(HashInput(call.transaction))
          /\ CalculateId(tx) # result.value
    /\ \E tx \in HashTransactions :
          /\ tx.timestamp # call.transaction.timestamp
          /\ tx = [ call.transaction EXCEPT !.timestamp = tx.timestamp ]
          /\ CalculateId(tx) # result.value

\* C27: decrypting, with the secret key, the ciphertext that encrypt made of
\* an amount for the matching public key gives the amount back.
C27_RoundTrip ==
    Returned("decrypt") => (result.kind = "Ok" /\ result.value = call.amount)

\* C28: the chain walk of verify_transaction_chain ends on every store and
\* every transaction: no add_transaction call stays in the walk for ever.
C28_WalkTerminates ==
    Returned("add_transaction") => result.kind # "Diverges"

\* C29: the chain walk starts at the record named by the
\* previous_transaction_id of the new transaction, not at a record keyed by
\* the id of the new transaction, and a record that is missing ends the walk
\* with ChainBroken: when add_transaction turns a correctly signed
\* transaction away because the walk found no record, the record it looked
\* for is the one the transaction names as previous and the error is
\* ChainBroken.
C29_WalkStartsAtHead ==
    ( /\ Returned("add_transaction")
      /\ SignatureVerifies
      /\ result.cause = "TransactionNotFound" )
        => /\ VerifyTransactionChain(before, CallTx).missing = call.previous_transaction_id
           /\ result.kind = "ChainBroken"

\* C31: add_transaction checks the signature first, then walks the chain, and
\* begins its write only when both have passed: a call whose signature does
\* not verify ends in InvalidSignature whatever the walk would find, every
\* call that ends in an error leaves the store as it was before the call, and
\* a call that succeeds has put the transaction under its id and nothing
\* else.
C31_ChecksBeforePersist ==
    Returned("add_transaction") =>
        /\ ~SignatureVerifies => result.kind = "InvalidSignature"
        /\ ~result.ok => store = before
        /\ result.ok => store = Put(before, RawKey(CallId), SerializeTransaction(CallTx))

\* A correctly signed call that names a stored record and is turned away by
\* the chain walk, on a store that a successful call would have changed.
C31_Witness ==
    /\ Returned("add_transaction")
    /\ SignatureVerifies
    /\ result.kind = "InsufficientBalance"
    /\ RawKey(call.previous_transaction_id) \in DOMAIN before
    /\ RawKey(CallId) \notin DOMAIN before
    /\ store = before

\* The ids of the transactions add_transaction has put into db: the values
\* it writes are bare transactions.
AdmittedIds(db) == { h \in StoredIds(db) : Len(db[RawKey(h)]) = 1 }

\* C32: get_transaction called with the hex id that add_transaction returned
\* finds the transaction admitted under it and returns it unchanged;
\* called with any other text it returns not-found; it never changes the
\* store.
C32_GetAfterAdd ==
    Returned("get_transaction") =>
        /\ store = before
        /\ IF call.id[1] = "hex" /\ call.id[2] \in AdmittedIds(store)
           THEN /\ result.ok
                /\ CalculateId(result.value[1]) = call.id[2]
           ELSE ~result.ok /\ result.kind = "NotFound"

\* C33: in every store reached by load_genesis and admissions every key is 32
\* bytes long, and get_all_transaction_ids returns without failing one id
\* for each stored record.
C33_ListIdsTotal ==
    /\ \A k \in DOMAIN store : KeyLen(k) = HashLen
    /\ Returned("get_all_transaction_ids") =>
          (result.ok /\ Cardinality(result.value) = Cardinality(DOMAIN store))

C35_SearchNoOverflow ==
    Returned("decrypt") => result.kind # "Panic"

\* The last operation was handle_swarm_event of `event` at node n.
Handled(n, event) ==
    call.op = "handle_swarm_event" /\ call.node = n /\ call.event = event

\* C36: when a node handles a ConnectionClosed for a peer with no connection
\* remaining, or a ping failure of a peer it is not connected to, the peer is
\* not in known_peers afterwards; and a peer that is not in known_peers
\* enters it only by a ConnectionEstablished event or a gossip message
\* handled by that node.
C36_PeerRemoval ==
    [][ \A n \in Nodes, p \in PeerIds :
          /\ ( /\ call'.op = "handle_swarm_event"
               /\ call'.node = n
               /\ call'.event \in {"ConnectionClosed", "PingFailure"}
               /\ call'.peer = p
               /\ ~IsConnected(socket'[n], p) ) => p \notin DOMAIN store'[n]
          /\ (p \notin DOMAIN store[n] /\ p \in DOMAIN store'[n]) =>
                ( /\ call'.op = "handle_swarm_event"
                  /\ call'.node = n
                  /\ call'.event \in {"ConnectionEstablished", "Message"} ) ]_vars

C36_Witness ==
    \E n \in Nodes, p \in PeerIds :
        /\ Handled(n, "ConnectionClosed")
        /\ call.peer = p
        /\ p \in DOMAIN before[n]
        /\ ~IsConnected(socket[n], p)
        /\ p \notin DOMAIN store[n]

\* C37: when two nodes each hold a connection to the other (each has handled
\* its ConnectionEstablished event), each has the other in known_peers; and
\* Node::new hands every bootstrap peer of its configuration to swarm.dial.
C37_DiscoveryOnConnect ==
    /\ \A n \in Nodes : \A m \in Nodes \ {n} :
          (IsConnected(socket[n], m) /\ IsConnected(socket[m], n)) =>
              (m \in DOMAIN store[n] /\ n \in DOMAIN store[m])
    /\ call.op = "new" =>
          \A i \in DOMAIN call.bootstrap_peers : call.bootstrap_peers[i] \in result.value

C37_Witness ==
    \E n \in Nodes : \E m \in Nodes \ {n} :
        /\ Handled(n, "ConnectionEstablished")
        /\ call.peer = m
        /\ m \notin DOMAIN before[n]
        /\ IsConnected(socket[n], m) /\ IsConnected(socket[m], n)
        /\ m \in DOMAIN store[n] /\ n \in DOMAIN store[m]

\* C38: in every reachable state no node has its own peer id in known_peers.
C38_NeverOwnPeer == \A n \in Nodes : n \notin DOMAIN store[n]

C38_Witness ==
    \E n \in Nodes :
        /\ Handled(n, "Message")
        /\ SerdeJsonFromSlice(call.data).ok
        /\ \E i \in DOMAIN SerdeJsonFromSlice(call.data).value.known_peers :
              SerdeJsonFromSlice(call.data).value.known_peers[i] \in {n} \X Multiaddrs
        /\ result.ok
        /\ n \notin DOMAIN store[n]

\* C39: after a node has handled a gossip message whose payload does not
\* decode as a GossipMessage, its start is still in its loop and known_peers
\* is what it was before the message.
C39_LoopSurvivesBadGossip ==
    \A n \in Nodes :
        (Handled(n, "Message") /\ ~SerdeJsonFromSlice(call.data).ok) =>
            (spc[n] = "running" /\ store = before)

====
